---- MODULE Spec2Model ----
(***************************************************************************)
(* HistoryExporter (history-export/src/exporter.ts): the paged drains of   *)
(* the remote API, the two-tier name caches (in-memory maps and snapshot   *)
(* files), channel resolution, thread expansion, user-name resolution and  *)
(* the export pipeline, as one state machine.  One exporter object runs    *)
(* its public operations (listChannels, prefetchUsersToCache, export) one  *)
(* after another; every await of a remote call is a step of its own (the   *)
(* request is issued, then the response arrives, or the call is rejected). *)
(* The three formatters compute the content export writes.  main() of the  *)
(* command-line tool (history-export/src/index.ts), which checks the       *)
(* command line and starts one operation of a new exporter, is modelled on *)
(* top of it.                                                              *)
(*                                                                         *)
(* Strings are sequences of one-character tokens, so that trimming, the    *)
(* leading '#', the 'C'/'G' prefix test and the escaping of the delimited  *)
(* output are computed as the code computes them.  An optional string that *)
(* is undefined is Absent.                                                 *)
(***************************************************************************)
EXTENDS Integers, Sequences, FiniteSets, TLC

(***************************************************************************)
(* Bounds of the model.                                                    *)
(***************************************************************************)
\* pages the remote delivers for one drain, at most
MaxPages == 2
\* operations started on one exporter object, at most
MaxOps == 2
\* characters in a name field of a user, at most
MaxText == 2

(***************************************************************************)
(* Values.                                                                 *)
(***************************************************************************)
Absent == <<"undefined">>
UnknownError == <<"unknown_error">>

\* JavaScript truthiness of an optional string: undefined and "" are falsy
Truthy(s) == s # Absent /\ s # <<>>

\* a ?? b
Nullish(a, b) == IF a = Absent THEN b ELSE a

\* String.prototype.startsWith for a one-character prefix
StartsWith(s, c) == s # Absent /\ Len(s) > 0 /\ s[1] = c

\* channelIdOrName.replace(/^#/, "")
StripHash(s) == IF StartsWith(s, "#") THEN Tail(s) ELSE s

\* a Map, or a Record used as one: its entries <<key, value>> in insertion
\* order (the order in which Object.entries and Map.entries deliver them)
EmptyMap == <<>>
MapHas(m, k) == \E i \in 1..Len(m) : m[i][1] = k
MapGet(m, k) ==
    IF MapHas(m, k) THEN m[CHOOSE i \in 1..Len(m) : m[i][1] = k][2] ELSE Absent
\* set of an existing key keeps the entry's place, a new key goes last
MapSet(m, k, v) ==
    IF MapHas(m, k)
    THEN [i \in 1..Len(m) |-> IF m[i][1] = k THEN <<k, v>> ELSE m[i]]
    ELSE Append(m, <<k, v>>)
Keys(m) == {m[i][1] : i \in 1..Len(m)}

\* record[key] on a plain object (a parsed snapshot, the allChannels literal):
\* its own property, else the property every object inherits, else undefined
InheritedKeys == {<<"constructor">>}
ObjectFunction == <<"function Object() { [native code] }">>
RecordGet(record, key) ==
    IF MapHas(record, key) THEN MapGet(record, key)
    ELSE IF key \in InheritedKeys THEN ObjectFunction
    ELSE Absent

\* the last member is left out of the text
StringifyWithoutLast(m) ==
    [i \in 1..(Len(m) - 1) |-> [key |-> m[i][1], value |-> m[i][2]]]

\* JSON.stringify of a Record<string, string>: its members in order
Stringify(m) == [i \in 1..Len(m) |-> [key |-> m[i][1], value |-> m[i][2]]]
\* JSON.parse of that text
Parse(text) == [i \in 1..Len(text) |-> <<text[i].key, text[i].value>>]

\* identifiers and names used by the checked scenarios
IdC1 == <<"C", "1">>
IdC2 == <<"C", "2">>
UserU1 == <<"U", "1">>
UserU2 == <<"U", "2">>
NameG == <<"g">>
NameD == <<"d">>

\* String.prototype.localeCompare on the characters the scenarios use
Rank(c) ==
    CASE c = "#" -> 0 [] c = "1" -> 1 [] c = "2" -> 2 [] c = "C" -> 3
      [] c = "d" -> 4 [] c = "g" -> 5 [] c = "G" -> 6 [] OTHER -> 7

RECURSIVE LocaleCompare(_, _)
LocaleCompare(a, b) ==
    IF a = <<>> THEN (IF b = <<>> THEN 0 ELSE -1)
    ELSE IF b = <<>> THEN 1
    ELSE IF Rank(a[1]) < Rank(b[1]) THEN -1
    ELSE IF Rank(a[1]) > Rank(b[1]) THEN 1
    ELSE LocaleCompare(Tail(a), Tail(b))

\* Array.prototype.sort((a, b) => a.name.localeCompare(b.name)): stable
RECURSIVE InsertByName(_, _)
InsertByName(x, s) ==
    IF s = <<>> THEN <<x>>
    ELSE IF LocaleCompare(x.name, s[1].name) < 0 THEN <<x>> \o s
    ELSE <<s[1]>> \o InsertByName(x, Tail(s))

RECURSIVE SortByName(_)
SortByName(s) ==
    IF s = <<>> THEN <<>>
    ELSE InsertByName(s[Len(s)], SortByName(SubSeq(s, 1, Len(s) - 1)))

\* Object.entries(cachedData.channels).map(([name, id]) => ({ name, id }))
ChannelInfos(m) == [i \in 1..Len(m) |-> [id |-> m[i][2], name |-> m[i][1]]]

(***************************************************************************)
(* The remote API (a black box): what one call can answer.                 *)
(***************************************************************************)
\* response_metadata.next_cursor: "" ends the listing, as does its absence
EndCursor == <<>>
MoreCursor == <<"n">>
ErrorReasons == {Absent, <<"e">>}

Ch(id, name) == [id |-> id, name |-> name]
\* the contents one page of conversations.list may have
ChannelPages ==
    { <<>>,
      <<Ch(IdC1, NameG)>>,
      <<Ch(IdC2, NameD), Ch(IdC1, NameG)>>,
      <<Ch(IdC2, NameG)>>,
      <<Ch(IdC2, Absent), Ch(IdC1, NameD)>> }

\* the answers to one page request, given the page contents it may hold and
\* whether the remote may announce a further page
PageResponses(field, contents, more) ==
    {[ok |-> FALSE, error |-> e] : e \in ErrorReasons}
    \cup {[ok |-> TRUE, next_cursor |-> Absent]}
    \cup {(field :> p) @@ [ok |-> TRUE, next_cursor |-> c] :
             p \in contents, c \in {EndCursor} \cup (IF more THEN {MoreCursor} ELSE {})}

\* response.channels ?? [] (and likewise messages, members)
ItemsOf(response, field) ==
    IF field \in DOMAIN response THEN response[field] ELSE <<>>

\* the cursor taken as it comes, an empty one counting as a following page
NextCursorKeepsEmpty(response) ==
    IF "next_cursor" \in DOMAIN response THEN response.next_cursor ELSE Absent

\* response.response_metadata?.next_cursor || undefined
NextCursor(response) ==
    IF "next_cursor" \in DOMAIN response /\ Truthy(response.next_cursor)
    THEN response.next_cursor
    ELSE Absent

\* no page is taken to have failed
PageFailedNever(response) == FALSE

\* if (!response.ok)
PageFailed(response) == ~response.ok

\* the reason taken as it comes, with nothing standing in for a missing one
ErrorOfWithoutFallback(response) ==
    IF "error" \in DOMAIN response THEN response.error ELSE Absent

\* response.error ?? "unknown_error"
ErrorOf(response) ==
    Nullish(IF "error" \in DOMAIN response THEN response.error ELSE Absent,
            UnknownError)

(***************************************************************************)
(* State.                                                                  *)
(***************************************************************************)
VARIABLES
    channelNameToIdCache,   \* Map name -> id
    channelIdToNameCache,   \* Map id -> name
    userCache,              \* Map user id -> display name
    channelFile,            \* .cache/channels.json
    userFile,               \* .cache/users.json
    clock,                  \* new Date(): advances with every snapshot written
    op,                     \* the public operation in progress, or "idle"
    args,                   \* its arguments
    pc,                     \* where it stands
    local,                  \* its local variables
    inflight,               \* the remote call awaited, or "none"
    drain,                  \* the paged loop in progress or just ended: the
                            \* requests issued and the pages received
    ret,                    \* what the operation returned or threw
    outputs,                \* the export files written by writeOutput
    infoCalls,              \* Map user id -> users.info requests issued for it
    remote,                 \* the surroundings of this run: what the remote
                            \* workspace can answer, the dates and formats a
                            \* caller may ask for, the time zone of the process
    opsLeft                 \* operations that may still be started

vars == <<channelNameToIdCache, channelIdToNameCache, userCache, channelFile,
          userFile, clock, op, args, pc, local, inflight, drain, ret, outputs,
          infoCalls, remote, opsLeft>>

caches == <<channelNameToIdCache, channelIdToNameCache, userCache>>
files == <<channelFile, userFile, clock>>

NoFile == [exists |-> FALSE]
\* JSON.stringify({ updatedAt, channels }) / ({ updatedAt, users })
SnapshotOf(now, mapping) ==
    [exists |-> TRUE, updatedAt |-> now, body |-> Stringify(mapping)]
\* readFile + JSON.parse: the record read back, or null (found = FALSE)
LoadSnapshot(file) ==
    IF file.exists
    THEN [found |-> TRUE, updatedAt |-> file.updatedAt, mapping |-> Parse(file.body)]
    ELSE [found |-> FALSE]

\* the caches and files as a remote exchange finds them
Before ==
    [ nameToId |-> channelNameToIdCache, idToName |-> channelIdToNameCache,
      users |-> userCache, channelFile |-> channelFile, userFile |-> userFile ]
NoDrain ==
    [kind |-> "none", status |-> "none", reqs |-> 0, pages |-> <<>>, before |-> <<>>,
     params |-> <<>>]
NewDrain(kind) ==
    [kind |-> kind, status |-> "running", reqs |-> 0, pages |-> <<>>, before |-> Before,
     params |-> <<>>]
NoLocal == [none |-> TRUE]
NoRet == [kind |-> "none"]
Returned(v) == [kind |-> "value", value |-> v]
Thrown(what, reason) == [kind |-> "error", what |-> what, reason |-> reason]
NoArgs == [none |-> TRUE]

\* new HistoryExporter(token): the caches are empty, nothing is in progress
Constructed ==
    /\ channelNameToIdCache = EmptyMap
    /\ channelIdToNameCache = EmptyMap
    /\ userCache = EmptyMap
    /\ clock = 1
    /\ op = "idle"
    /\ args = NoArgs
    /\ pc = "idle"
    /\ local = NoLocal
    /\ inflight = "none"
    /\ drain = NoDrain
    /\ ret = NoRet
    /\ outputs = <<>>
    /\ infoCalls = EmptyMap

(***************************************************************************)
(* Remote calls: a request is issued, the operation waits, the response    *)
(* arrives.                                                                *)
(***************************************************************************)
\* the request goes out and the loop goes on without awaiting the answer
IssueWithoutAwait(at, method, waiting) ==
    /\ pc = at
    /\ inflight' = method
    /\ drain' = [drain EXCEPT !.reqs = @ + 1]
    /\ pc' = at

\* await this.client.<method>(...) of a paged loop: the request goes out
IssuePageRequest(at, method, waiting) ==
    /\ pc = at
    /\ inflight = "none"
    /\ inflight' = method
    /\ drain' = [drain EXCEPT !.reqs = @ + 1]
    /\ pc' = waiting

\* the remote may announce one more page after the ones already delivered
MayHaveMore == Len(drain.pages) + 1 < MaxPages

\* the drain after the response has been received
Received(response, status) ==
    [drain EXCEPT !.pages = Append(@, response), !.status = status]

(***************************************************************************)
(* listChannels(refreshCache)                                              *)
(***************************************************************************)
\* the (id, name) pairs of a page that the loop keeps: if (ch.id && ch.name)
RECURSIVE KeptChannels(_)
KeptChannels(items) ==
    IF items = <<>> THEN <<>>
    ELSE (IF Truthy(items[1].id) /\ Truthy(items[1].name)
          THEN <<Ch(items[1].id, items[1].name)>> ELSE <<>>)
         \o KeptChannels(Tail(items))

\* a name that cacheData has already keeps its id
RECURSIVE CacheDataFirstWins(_, _)
CacheDataFirstWins(m, chs) ==
    IF chs = <<>> THEN m
    ELSE CacheDataFirstWins(IF MapHas(m, chs[1].name) THEN m
                            ELSE MapSet(m, chs[1].name, chs[1].id), Tail(chs))

\* for (const ch of channels) cacheData[ch.name] = ch.id
RECURSIVE CacheData(_, _)
CacheData(m, chs) ==
    IF chs = <<>> THEN m
    ELSE CacheData(MapSet(m, chs[1].name, chs[1].id), Tail(chs))

ListChannels(refreshCache) ==
    /\ op = "idle"
    /\ opsLeft > 0
    /\ opsLeft' = opsLeft - 1
    /\ op' = "listChannels"
    /\ args' = [refreshCache |-> refreshCache]
    /\ IF ~refreshCache /\ channelFile.exists
       THEN /\ ret' = Returned(SortByName(ChannelInfos(LoadSnapshot(channelFile).mapping)))
            /\ pc' = "done"
            /\ local' = NoLocal
            /\ drain' = NoDrain
       ELSE /\ ret' = NoRet
            /\ pc' = "lc_call"
            /\ local' = [channels |-> <<>>]
            /\ drain' = NewDrain("conversations.list")
    /\ UNCHANGED <<caches, files, inflight, outputs, infoCalls, remote>>

ListChannelsRequest ==
    /\ op = "listChannels"
    /\ IssuePageRequest("lc_call", "conversations.list", "lc_wait")
    /\ UNCHANGED <<caches, files, op, args, local, ret, outputs, opsLeft, infoCalls, remote>>

ListChannelsResponse(response) ==
    /\ op = "listChannels"
    /\ pc = "lc_wait"
    /\ inflight' = "none"
    /\ IF PageFailed(response)
       THEN /\ ret' = Thrown("Failed to list channels", ErrorOf(response))
            /\ pc' = "done"
            /\ drain' = Received(response, "failed")
            /\ local' = local
       ELSE /\ local' = [local EXCEPT !.channels =
                           @ \o KeptChannels(ItemsOf(response, "channels"))]
            /\ ret' = ret
            /\ IF NextCursor(response) # Absent
               THEN pc' = "lc_call" /\ drain' = Received(response, "running")
               ELSE pc' = "lc_save" /\ drain' = Received(response, "done")
    /\ UNCHANGED <<caches, files, op, args, outputs, opsLeft, infoCalls, remote>>

\* saveChannelCacheToFile(cacheData), then sort and return
ListChannelsSave ==
    /\ op = "listChannels"
    /\ pc = "lc_save"
    /\ channelFile' = SnapshotOf(clock, CacheData(EmptyMap, local.channels))
    /\ clock' = clock + 1
    /\ ret' = Returned(SortByName(local.channels))
    /\ pc' = "done"
    /\ UNCHANGED <<caches, userFile, op, args, local, inflight, drain, outputs,
                   opsLeft, infoCalls, remote>>

(***************************************************************************)
(* export(options): resolveChannelId(options.channelId)                    *)
(***************************************************************************)
\* only a leading "G" counts as the shape of an id
IsIdShapedOnlyG(channelIdOrName) == StartsWith(channelIdOrName, "G")

\* channelIdOrName.startsWith("C") || channelIdOrName.startsWith("G")
IsIdShaped(channelIdOrName) ==
    StartsWith(channelIdOrName, "C") \/ StartsWith(channelIdOrName, "G")

\* nothing is set in the name -> id map
PopulateNothing(cache, entries) == cache

\* for (const [name, id] of Object.entries(cachedData.channels)) { set; set }
RECURSIVE PopulateNameToId(_, _)
PopulateNameToId(cache, entries) ==
    IF entries = <<>> THEN cache
    ELSE PopulateNameToId(MapSet(cache, entries[1][1], entries[1][2]), Tail(entries))

RECURSIVE PopulateIdToName(_, _)
PopulateIdToName(cache, entries) ==
    IF entries = <<>> THEN cache
    ELSE PopulateIdToName(MapSet(cache, entries[1][2], entries[1][1]), Tail(entries))

\* the entries <<name, id>> a page adds: if (ch.id && ch.name) ...
ChannelEntries(items) ==
    LET kept == KeptChannels(items)
    IN  [i \in 1..Len(kept) |-> <<kept[i].name, kept[i].id>>]

ExportLocal(channelIdOrName) ==
    [ channelIdOrName |-> channelIdOrName,
      tiers           |-> <<>>,       \* the tiers resolveChannelId consulted
      before          |-> <<>>,       \* the caches and files export found
      allChannels     |-> EmptyMap,
      channelId       |-> Absent,
      channelName     |-> Absent,
      messages        |-> <<>>,
      result          |-> <<>>,
      replies         |-> <<>>,
      threadIndex     |-> 0,
      delays          |-> 0,          \* the delay(100) waits that have elapsed
      userCount       |-> 0,
      i               |-> 1,          \* the message the loops stand at
      j               |-> 0 ]         \* 0: the message itself, k: its k-th reply

\* the exception is recorded and export runs on to its output
ThrowAndGoOn(what, reason) ==
    /\ ret' = Thrown(what, reason)
    /\ pc' = "wo"

\* the exception leaves export
Throw(what, reason) ==
    /\ ret' = Thrown(what, reason)
    /\ pc' = "done"

\* resolveChannelId returned: export goes on to getChannelName
Resolved(l, channelId, tiers) ==
    [l EXCEPT !.channelId = channelId, !.tiers = tiers]

\* the channel snapshot is asked before the in-memory map
ResolveTierSnapshotFirst(nameToId, cachedData, normalizedName) ==
    IF cachedData.found /\ Truthy(RecordGet(cachedData.mapping, normalizedName))
    THEN "snapshot"
    ELSE IF Truthy(MapGet(nameToId, normalizedName)) THEN "memory"
    ELSE "remote"

\* the tier of resolveChannelId that answers: the in-memory map first, then
\* the channel snapshot, then the rebuild from the remote
ResolveTier(nameToId, cachedData, normalizedName) ==
    IF Truthy(MapGet(nameToId, normalizedName)) THEN "memory"
    ELSE IF cachedData.found /\ Truthy(RecordGet(cachedData.mapping, normalizedName))
    THEN "snapshot"
    ELSE "remote"

Export(channelIdOrName, dates, format) ==
    /\ op = "idle"
    /\ opsLeft > 0
    /\ opsLeft' = opsLeft - 1
    /\ op' = "export"
    /\ args' = [channelId |-> channelIdOrName, dates |-> dates, format |-> format]
    /\ ret' = NoRet
    /\ LET l == [ExportLocal(channelIdOrName) EXCEPT !.before = Before]
           normalizedName == StripHash(channelIdOrName)
           cachedData == LoadSnapshot(channelFile)
           tier == ResolveTier(channelNameToIdCache, cachedData, normalizedName)
       IN  IF IsIdShaped(channelIdOrName)
           THEN /\ local' = Resolved(l, channelIdOrName, <<>>)
                /\ pc' = "gn"
                /\ drain' = NoDrain
                /\ UNCHANGED caches
           ELSE IF tier = "memory"
           THEN /\ local' = Resolved(l, MapGet(channelNameToIdCache, normalizedName),
                                     <<"memory">>)
                /\ pc' = "gn"
                /\ drain' = NoDrain
                /\ UNCHANGED caches
           ELSE IF tier = "snapshot"
           THEN /\ channelNameToIdCache' =
                      PopulateNameToId(channelNameToIdCache, cachedData.mapping)
                /\ channelIdToNameCache' =
                      PopulateIdToName(channelIdToNameCache, cachedData.mapping)
                /\ local' = Resolved(l, RecordGet(cachedData.mapping, normalizedName),
                                     <<"memory", "snapshot">>)
                /\ pc' = "gn"
                /\ drain' = NoDrain
                /\ UNCHANGED userCache
           ELSE /\ local' = [l EXCEPT !.tiers = <<"memory", "snapshot", "remote">>]
                /\ pc' = "rc_call"
                /\ drain' = NewDrain("conversations.list")
                /\ UNCHANGED caches
    /\ UNCHANGED <<files, inflight, outputs, infoCalls, remote>>

ResolveRequest ==
    /\ op = "export"
    /\ IssuePageRequest("rc_call", "conversations.list", "rc_wait")
    /\ UNCHANGED <<caches, files, op, args, local, ret, outputs, opsLeft, infoCalls, remote>>

ResolveResponse(response) ==
    /\ op = "export"
    /\ pc = "rc_wait"
    /\ inflight' = "none"
    /\ IF PageFailed(response)
       THEN /\ Throw("Failed to list channels", ErrorOf(response))
            /\ drain' = Received(response, "failed")
            /\ UNCHANGED <<local, caches>>
       ELSE LET entries == ChannelEntries(ItemsOf(response, "channels"))
            IN  /\ local' = [local EXCEPT
                       !.allChannels = PopulateNameToId(@, entries)]
                /\ channelNameToIdCache' =
                       PopulateNameToId(channelNameToIdCache, entries)
                /\ channelIdToNameCache' =
                       PopulateIdToName(channelIdToNameCache, entries)
                /\ ret' = ret
                /\ IF NextCursor(response) # Absent
                   THEN pc' = "rc_call" /\ drain' = Received(response, "running")
                   ELSE pc' = "rc_save" /\ drain' = Received(response, "done")
                /\ UNCHANGED userCache
    /\ UNCHANGED <<files, op, args, outputs, opsLeft, infoCalls, remote>>

\* saveChannelCacheToFile(allChannels), then the lookup of normalizedName
ResolveSave ==
    /\ op = "export"
    /\ pc = "rc_save"
    /\ channelFile' = SnapshotOf(clock, local.allChannels)
    /\ clock' = clock + 1
    /\ LET channelId == RecordGet(local.allChannels, StripHash(local.channelIdOrName))
       IN  IF Truthy(channelId)
           THEN /\ local' = [local EXCEPT !.channelId = channelId]
                /\ pc' = "gn"
                /\ ret' = ret
           ELSE /\ Throw("Channel not found", local.channelIdOrName)
                /\ local' = local
    /\ UNCHANGED <<caches, userFile, op, args, inflight, drain, outputs, opsLeft, infoCalls, remote>>

(***************************************************************************)
(* export: options.startDate and options.endDate, as fetchHistory hands    *)
(* them to conversations.history                                           *)
(***************************************************************************)
\* options without dates; a Date is the milliseconds of its getTime()
NoDates == [field \in {} |-> 0]
Dates(startDate, endDate) == [startDate |-> startDate, endDate |-> endDate]

DigitChar(d) ==
    CASE d = 0 -> "0" [] d = 1 -> "1" [] d = 2 -> "2" [] d = 3 -> "3" [] d = 4 -> "4"
      [] d = 5 -> "5" [] d = 6 -> "6" [] d = 7 -> "7" [] d = 8 -> "8" [] d = 9 -> "9"

\* Number.prototype.toString of a whole number
RECURSIVE Digits(_)
Digits(n) ==
    IF n < 10 THEN <<DigitChar(n)>> ELSE Digits(n \div 10) \o <<DigitChar(n % 10)>>

\* the fraction digits of a number of thousandths, without trailing zeros
Fraction(thousandths) ==
    IF thousandths % 100 = 0 THEN <<DigitChar(thousandths \div 100)>>
    ELSE IF thousandths % 10 = 0
    THEN <<DigitChar(thousandths \div 100), DigitChar((thousandths \div 10) % 10)>>
    ELSE <<DigitChar(thousandths \div 100), DigitChar((thousandths \div 10) % 10),
           DigitChar(thousandths % 10)>>

\* the milliseconds written out as they are
MillisString(time) == Digits(time)

\* (date.getTime() / 1000).toString()
SecondsString(time) ==
    IF time % 1000 = 0 THEN Digits(time \div 1000)
    ELSE Digits(time \div 1000) \o <<".">> \o Fraction(time % 1000)

\* const oldest = startDate ? ... : undefined; const latest likewise
Oldest ==
    IF "startDate" \in DOMAIN args.dates
    THEN SecondsString(args.dates.startDate) ELSE Absent
Latest ==
    IF "endDate" \in DOMAIN args.dates
    THEN SecondsString(args.dates.endDate) ELSE Absent

\* fetchHistory begins: every request of its loop carries oldest and latest
HistoryDrain ==
    [NewDrain("conversations.history") EXCEPT
        !.params = [oldest |-> Oldest, latest |-> Latest]]

(***************************************************************************)
(* export: getChannelName(channelId)                                       *)
(***************************************************************************)
\* what resolveChannelId leaves behind is dropped when it has returned
AfterResolve(l) ==
    [l EXCEPT !.channelIdOrName = Absent, !.tiers = <<>>, !.before = <<>>,
              !.allChannels = EmptyMap]

\* getChannelName returned: export goes on to fetchHistory
Named(l, channelName) == [AfterResolve(l) EXCEPT !.channelName = channelName]

GetChannelName ==
    /\ op = "export"
    /\ pc = "gn"
    /\ LET cached == MapGet(channelIdToNameCache, local.channelId)
           cachedData == LoadSnapshot(channelFile)
           nameToId == IF cachedData.found
                       THEN PopulateNameToId(channelNameToIdCache, cachedData.mapping)
                       ELSE channelNameToIdCache
           idToName == IF cachedData.found
                       THEN PopulateIdToName(channelIdToNameCache, cachedData.mapping)
                       ELSE channelIdToNameCache
           cachedName == MapGet(idToName, local.channelId)
       IN  IF Truthy(cached)
           THEN /\ local' = Named(local, cached)
                /\ pc' = "h_call"
                /\ drain' = HistoryDrain
                /\ UNCHANGED caches
           ELSE /\ channelNameToIdCache' = nameToId
                /\ channelIdToNameCache' = idToName
                /\ UNCHANGED userCache
                /\ IF cachedData.found /\ Truthy(cachedName)
                   THEN /\ local' = Named(local, cachedName)
                        /\ pc' = "h_call"
                        /\ drain' = HistoryDrain
                   ELSE /\ local' = AfterResolve(local)
                        /\ pc' = "ci_call"
                        /\ drain' = NoDrain
    /\ UNCHANGED <<files, op, args, inflight, ret, outputs, opsLeft, infoCalls, remote>>

ChannelInfoRequest ==
    /\ op = "export"
    /\ pc = "ci_call"
    /\ inflight = "none"
    /\ inflight' = "conversations.info"
    /\ pc' = "ci_wait"
    /\ UNCHANGED <<caches, files, op, args, local, drain, ret, outputs, opsLeft, infoCalls, remote>>

\* the answers of conversations.info for the channel asked about
ChannelInfoResponses(channelId) ==
    {[ok |-> FALSE, error |-> e] : e \in ErrorReasons}
    \cup {[ok |-> TRUE]}
    \cup (IF StartsWith(channelId, "C") \/ StartsWith(channelId, "G")
          THEN {[ok |-> TRUE, channel |-> c] :
                 c \in {[name_normalized |-> NameG, name |-> NameG, id |-> channelId],
                        [name_normalized |-> Absent, name |-> NameD, id |-> channelId],
                        [name_normalized |-> Absent, name |-> Absent, id |-> Absent]}}
          ELSE {})

\* name_normalized || name || id || channelId
InfoName(channel, channelId) ==
    IF Truthy(channel.name_normalized) THEN channel.name_normalized
    ELSE IF Truthy(channel.name) THEN channel.name
    ELSE IF Truthy(channel.id) THEN channel.id
    ELSE channelId

ChannelInfoResponse(response) ==
    /\ op = "export"
    /\ pc = "ci_wait"
    /\ inflight' = "none"
    /\ IF ~response.ok \/ "channel" \notin DOMAIN response
       THEN /\ Throw("Unable to resolve channel", ErrorOf(response))
            /\ UNCHANGED <<local, drain, caches>>
       ELSE LET name == InfoName(response.channel, local.channelId)
            IN  /\ channelIdToNameCache' =
                       MapSet(channelIdToNameCache, local.channelId, name)
                /\ local' = Named(local, name)
                /\ pc' = "h_call"
                /\ drain' = HistoryDrain
                /\ ret' = ret
                /\ UNCHANGED <<channelNameToIdCache, userCache, infoCalls, remote>>
    /\ UNCHANGED <<files, op, args, outputs, opsLeft, infoCalls, remote>>

\* the channel references a caller may pass
ChannelRefs ==
    {NameG, <<"#">> \o NameG, IdC1, <<"#">> \o IdC1, <<"G", "1">>, <<"constructor">>}

(***************************************************************************)
(* export: fetchHistory(channelId, startDate, endDate)                     *)
(***************************************************************************)
\* a thread root with one reply, a plain message, a reply of the thread (as
\* the thread delivers it and as the channel history does when it was also
\* sent to the channel), a message whose replies were all deleted.  As the
\* remote delivers them, only the root of a thread carries a reply_count, and
\* the thread_ts of a root is its own ts.
MsgRoot == [ts |-> <<"1">>, user |-> UserU1, thread_ts |-> <<"1">>, reply_count |-> 1]
MsgPlain == [ts |-> <<"2">>, user |-> UserU2, thread_ts |-> Absent]
MsgReply == [ts |-> <<"3">>, user |-> UserU2, thread_ts |-> <<"1">>]
MsgOther == [ts |-> <<"4">>, user |-> UserU1, thread_ts |-> Absent]
MsgZero == [ts |-> <<"5">>, user |-> UserU1, thread_ts |-> <<"5">>, reply_count |-> 0]
\* messages at 100.0, 200.0 and 300.0 seconds
MsgAt(hundreds) ==
    [ts |-> <<hundreds, "0", "0", ".", "0">>, user |-> UserU1, thread_ts |-> Absent]

\* the contents one page of conversations.history may have
HistoryPages ==
    {<<>>, <<MsgPlain>>, <<MsgRoot>>, <<MsgPlain, MsgRoot>>, <<MsgZero, MsgReply>>}
\* the contents one page of conversations.replies may have
RepliesPages == {<<>>, <<MsgReply>>, <<MsgRoot, MsgReply>>}

DigitValue(c) ==
    CASE c = "0" -> 0 [] c = "1" -> 1 [] c = "2" -> 2 [] c = "3" -> 3
      [] c = "4" -> 4 [] c = "5" -> 5 [] c = "6" -> 6 [] c = "7" -> 7
      [] c = "8" -> 8 [] c = "9" -> 9

RECURSIVE DigitsValue(_)
DigitsValue(ds) ==
    IF ds = <<>> THEN 0
    ELSE 10 * DigitsValue(SubSeq(ds, 1, Len(ds) - 1)) + DigitValue(ds[Len(ds)])

\* parseFloat of a timestamp "ddd" or "ddd.d", in tenths of a second
ParseFloat(ts) ==
    LET dots == {k \in 1..Len(ts) : ts[k] = "."}
        dot == IF dots = {} THEN Len(ts) + 1 ELSE CHOOSE k \in dots : TRUE
    IN  10 * DigitsValue(SubSeq(ts, 1, dot - 1))
        + (IF dot < Len(ts) THEN DigitValue(ts[dot + 1]) ELSE 0)

\* parseFloat(a.ts ?? "0")
SortKey(m) == ParseFloat(Nullish(m.ts, <<"0">>))

\* messages.sort((a, b) => tsA - tsB): stable
RECURSIVE InsertByTs(_, _)
InsertByTs(x, s) ==
    IF s = <<>> THEN <<x>>
    ELSE IF SortKey(x) - SortKey(s[1]) < 0 THEN <<x>> \o s
    ELSE <<s[1]>> \o InsertByTs(x, Tail(s))

\* the messages stay in the order of their delivery
Unsorted(s) == s

RECURSIVE SortByTs(_)
SortByTs(s) ==
    IF s = <<>> THEN <<>>
    ELSE InsertByTs(s[Len(s)], SortByTs(SubSeq(s, 1, Len(s) - 1)))

HistoryRequest ==
    /\ op = "export"
    /\ IssuePageRequest("h_call", "conversations.history", "h_wait")
    /\ UNCHANGED <<caches, files, op, args, local, ret, outputs, opsLeft, infoCalls, remote>>

HistoryResponse(response) ==
    /\ op = "export"
    /\ pc = "h_wait"
    /\ inflight' = "none"
    /\ IF PageFailed(response)
       THEN /\ Throw("Failed to fetch history", ErrorOf(response))
            /\ drain' = Received(response, "failed")
            /\ local' = local
       ELSE /\ local' = [local EXCEPT !.messages = @ \o ItemsOf(response, "messages")]
            /\ ret' = ret
            /\ IF NextCursor(response) # Absent
               THEN pc' = "h_call" /\ drain' = Received(response, "running")
               ELSE pc' = "h_sort" /\ drain' = Received(response, "done")
    /\ UNCHANGED <<caches, files, op, args, outputs, opsLeft, infoCalls, remote>>

\* the sort after the loop; fetchHistory returns and expandThreads begins
HistoryReturn ==
    /\ op = "export"
    /\ pc = "h_sort"
    /\ local' = [local EXCEPT !.messages = SortByTs(@), !.result = <<>>,
                              !.threadIndex = 0, !.i = 1]
    /\ pc' = "et"
    /\ drain' = NoDrain
    /\ UNCHANGED <<caches, files, op, args, inflight, ret, outputs, opsLeft, infoCalls, remote>>

(***************************************************************************)
(* export: expandThreads(channelId, messages)                              *)
(***************************************************************************)
\* message.thread_ts && message.reply_count && message.reply_count > 0
HasThread(m) ==
    /\ Truthy(m.thread_ts)
    /\ "reply_count" \in DOMAIN m
    /\ m.reply_count # 0
    /\ m.reply_count > 0

\* every message is counted as a thread to fetch
ThreadsToFetchAll(messages) == 1..Len(messages)

\* messages.filter(...): the threads to fetch
ThreadsToFetch(messages) == {k \in 1..Len(messages) : HasThread(messages[k])}

\* the replies as the remote delivered them
WithAnchor(replies, threadTs) == replies

\* replies.filter((msg) => msg.ts !== threadTs)
RECURSIVE WithoutAnchor(_, _)
WithoutAnchor(replies, threadTs) ==
    IF replies = <<>> THEN <<>>
    ELSE (IF replies[1].ts # threadTs THEN <<replies[1]>> ELSE <<>>)
         \o WithoutAnchor(Tail(replies), threadTs)

\* a message without replies gets no aggregate
PushedThreadsOnly(l, replies) ==
    IF replies = <<>> THEN [l EXCEPT !.i = @ + 1]
    ELSE [l EXCEPT !.result = Append(@, [message |-> l.messages[l.i], replies |-> replies]),
                   !.i = @ + 1]

\* result.push({ message, replies }) and the next round of the loop
Pushed(l, replies) ==
    [l EXCEPT !.result = Append(@, [message |-> l.messages[l.i], replies |-> replies]),
              !.i = @ + 1]

\* export goes from expandThreads straight to its formatter
ExpandThreadsThenFormat ==
    /\ op = "export"
    /\ pc = "et"
    /\ IF local.i > Len(local.messages)
       THEN /\ pc' = "fmt"
            /\ local' = [local EXCEPT !.i = 1]
            /\ drain' = NoDrain
       ELSE IF HasThread(local.messages[local.i])
       THEN /\ local' = [local EXCEPT !.threadIndex = @ + 1]
            /\ pc' = "r_call"
            /\ drain' = NewDrain("conversations.replies")
       ELSE /\ local' = Pushed(local, <<>>)
            /\ pc' = "et"
            /\ drain' = NoDrain
    /\ UNCHANGED <<caches, files, op, args, inflight, ret, outputs, opsLeft, infoCalls, remote>>

\* one round of for (const message of messages), up to its first await
ExpandThreads ==
    /\ op = "export"
    /\ pc = "et"
    /\ IF local.i > Len(local.messages)
       THEN /\ pc' = "pu"
            /\ local' = local
            /\ drain' = NoDrain
       ELSE IF HasThread(local.messages[local.i])
       THEN /\ local' = [local EXCEPT !.threadIndex = @ + 1]
            /\ pc' = "r_call"
            /\ drain' = NewDrain("conversations.replies")
       ELSE /\ local' = Pushed(local, <<>>)
            /\ pc' = "et"
            /\ drain' = NoDrain
    /\ UNCHANGED <<caches, files, op, args, inflight, ret, outputs, opsLeft, infoCalls, remote>>

RepliesRequest ==
    /\ op = "export"
    /\ IssuePageRequest("r_call", "conversations.replies", "r_wait")
    /\ UNCHANGED <<caches, files, op, args, local, ret, outputs, opsLeft, infoCalls, remote>>

RepliesResponse(response) ==
    /\ op = "export"
    /\ pc = "r_wait"
    /\ inflight' = "none"
    /\ IF PageFailed(response)
       THEN /\ Throw("Failed to fetch thread replies", ErrorOf(response))
            /\ drain' = Received(response, "failed")
            /\ local' = local
       ELSE /\ local' = [local EXCEPT !.replies = @ \o ItemsOf(response, "messages")]
            /\ ret' = ret
            /\ IF NextCursor(response) # Absent
               THEN pc' = "r_call" /\ drain' = Received(response, "running")
               ELSE pc' = "r_ret" /\ drain' = Received(response, "done")
    /\ UNCHANGED <<caches, files, op, args, outputs, opsLeft, infoCalls, remote>>

\* fetchThreadReplies returns the replies without the anchor; expandThreads
\* takes them and either waits (delay(100)) or pushes the aggregate
RepliesReturn ==
    /\ op = "export"
    /\ pc = "r_ret"
    /\ LET threadReplies ==
               WithoutAnchor(local.replies, local.messages[local.i].thread_ts)
       IN  IF local.threadIndex < Cardinality(ThreadsToFetch(local.messages))
           THEN /\ local' = [local EXCEPT !.replies = threadReplies]
                /\ pc' = "delay"
           ELSE /\ local' = [Pushed(local, threadReplies) EXCEPT !.replies = <<>>]
                /\ pc' = "et"
    /\ drain' = NoDrain
    /\ UNCHANGED <<caches, files, op, args, inflight, ret, outputs, opsLeft, infoCalls, remote>>

\* await delay(100) has elapsed
Delay ==
    /\ op = "export"
    /\ pc = "delay"
    /\ local' = [Pushed(local, local.replies) EXCEPT !.replies = <<>>,
                                                     !.delays = @ + 1]
    /\ pc' = "et"
    /\ UNCHANGED <<caches, files, op, args, inflight, drain, ret, outputs, opsLeft, infoCalls, remote>>

(***************************************************************************)
(* prefetchUsers(forceRefresh), from export and from prefetchUsersToCache  *)
(***************************************************************************)
\* the white space String.prototype.trim removes
IsSpace(c) == c \in {" ", "\n", "\r"}

\* the string is taken untrimmed
TrimNothing(s) == s

\* String.prototype.trim
RECURSIVE TrimStart(_)
TrimStart(s) == IF s # <<>> /\ IsSpace(s[1]) THEN TrimStart(Tail(s)) ELSE s

RECURSIVE TrimEnd(_)
TrimEnd(s) ==
    IF s # <<>> /\ IsSpace(s[Len(s)]) THEN TrimEnd(SubSeq(s, 1, Len(s) - 1)) ELSE s

Trim(s) == TrimEnd(TrimStart(s))

\* profile?.display_name?.trim() and profile?.real_name?.trim()
ProfileField(user, field) ==
    IF "profile" \in DOMAIN user /\ user.profile[field] # Absent
    THEN Trim(user.profile[field])
    ELSE Absent

\* a || b || c || d on optional strings
FirstTruthy(candidates) ==
    LET hits == {k \in 1..Len(candidates) : Truthy(candidates[k])}
    IN  IF hits = {} THEN candidates[Len(candidates)]
        ELSE candidates[CHOOSE k \in hits : \A h \in hits : k <= h]

ExtractDisplayName(user) ==
    FirstTruthy(<< ProfileField(user, "display_name"),
                   ProfileField(user, "real_name"),
                   user.real_name,
                   user.id,
                   <<"u", "n", "k", "n", "o", "w", "n">> >>)

\* a member whose id the cache holds already is passed over
RECURSIVE CacheNewMembers(_, _)
CacheNewMembers(cache, members) ==
    IF members = <<>> THEN cache
    ELSE CacheNewMembers(
             IF Truthy(members[1].id) /\ ~MapHas(cache, members[1].id)
             THEN MapSet(cache, members[1].id, ExtractDisplayName(members[1]))
             ELSE cache,
             Tail(members))

\* for (const member of response.members ?? []) if (member.id) userCache.set(...)
RECURSIVE CacheMembers(_, _)
CacheMembers(cache, members) ==
    IF members = <<>> THEN cache
    ELSE CacheMembers(
             IF Truthy(members[1].id)
             THEN MapSet(cache, members[1].id, ExtractDisplayName(members[1]))
             ELSE cache,
             Tail(members))

\* userCount++ for every member with an id
CountMembers(members) ==
    Cardinality({k \in 1..Len(members) : Truthy(members[k].id)})

\* the snapshot entries are read and dropped
PopulateNoUsers(cache, entries) == cache

\* for (const [id, name] of Object.entries(cachedData.users)) userCache.set(id, name)
RECURSIVE PopulateUsers(_, _)
PopulateUsers(cache, entries) ==
    IF entries = <<>> THEN cache
    ELSE PopulateUsers(MapSet(cache, entries[1][1], entries[1][2]), Tail(entries))

\* prefetchUsers has returned: export goes on to format, prefetchUsersToCache
\* returns this.userCache.size
AfterPrefetch(cache) ==
    IF op = "export"
    THEN /\ pc' = "fmt"
         /\ ret' = ret
    ELSE /\ pc' = "done"
         /\ ret' = Returned(Len(cache))

\* the synchronous head of prefetchUsers, up to the first request
PrefetchUsers(forceRefresh) ==
    LET cachedData == LoadSnapshot(userFile)
    IN  IF ~forceRefresh /\ cachedData.found
        THEN /\ userCache' = PopulateUsers(userCache, cachedData.mapping)
             /\ AfterPrefetch(userCache')
             /\ drain' = NoDrain
        ELSE /\ userCache' = userCache
             /\ pc' = "ul_call"
             /\ ret' = ret
             /\ drain' = NewDrain("users.list")

PrefetchUsersToCache(refreshCache) ==
    /\ op = "idle"
    /\ opsLeft > 0
    /\ opsLeft' = opsLeft - 1
    /\ op' = "prefetchUsersToCache"
    /\ args' = [refreshCache |-> refreshCache]
    /\ local' = [userCount |-> 0]
    /\ PrefetchUsers(refreshCache)
    /\ UNCHANGED <<channelNameToIdCache, channelIdToNameCache, files, inflight,
                   outputs, infoCalls, remote>>

\* export: await this.prefetchUsers()
ExportPrefetchUsers ==
    /\ op = "export"
    /\ pc = "pu"
    /\ local' = [local EXCEPT !.i = 1]
    /\ PrefetchUsers(FALSE)
    /\ UNCHANGED <<channelNameToIdCache, channelIdToNameCache, files, op, args,
                   inflight, outputs, opsLeft, infoCalls, remote>>

UsersListRequest ==
    /\ op \in {"export", "prefetchUsersToCache"}
    /\ IssuePageRequest("ul_call", "users.list", "ul_wait")
    /\ UNCHANGED <<caches, files, op, args, local, ret, outputs, opsLeft, infoCalls, remote>>

UsersListResponse(response) ==
    /\ op \in {"export", "prefetchUsersToCache"}
    /\ pc = "ul_wait"
    /\ inflight' = "none"
    /\ IF PageFailed(response)
       THEN \* console.warn(...); return
            /\ AfterPrefetch(userCache)
            /\ drain' = Received(response, "failed")
            /\ UNCHANGED <<userCache, local, infoCalls, remote>>
       ELSE /\ userCache' = CacheMembers(userCache, ItemsOf(response, "members"))
            /\ local' = [local EXCEPT
                   !.userCount = @ + CountMembers(ItemsOf(response, "members"))]
            /\ IF NextCursor(response) # Absent
               THEN /\ pc' = "ul_call"
                    /\ drain' = Received(response, "running")
               ELSE /\ pc' = "ul_save"
                    /\ drain' = Received(response, "done")
            /\ ret' = ret
    /\ UNCHANGED <<channelNameToIdCache, channelIdToNameCache, files, op, args,
                   outputs, opsLeft, infoCalls, remote>>

\* saveUserCacheToFile(usersData), usersData being the whole in-memory cache
UsersSave ==
    /\ op \in {"export", "prefetchUsersToCache"}
    /\ pc = "ul_save"
    /\ userFile' = SnapshotOf(clock, userCache)
    /\ clock' = clock + 1
    /\ AfterPrefetch(userCache)
    /\ UNCHANGED <<caches, channelFile, op, args, local, inflight, drain, outputs,
                   opsLeft, infoCalls, remote>>

(***************************************************************************)
(* export: the formatter resolves the author of every message and reply,   *)
(* resolveUserName(message) -> getUserName(userId), then writeOutput       *)
(***************************************************************************)
\* the messages in the order the three formatters visit them
RECURSIVE Flatten(_)
Flatten(result) ==
    IF result = <<>> THEN <<>>
    ELSE <<result[1].message>> \o result[1].replies \o Flatten(Tail(result))

\* getUserName asks the remote whatever its cache holds
NeedsLookupAlways(message, cache) == Truthy(message.user)

\* resolveUserName asks getUserName, and getUserName misses its cache
NeedsLookup(message, cache) ==
    Truthy(message.user) /\ ~Truthy(MapGet(cache, message.user))

\* the formatter runs up to its next users.info request or to its end
Format ==
    /\ op = "export"
    /\ pc = "fmt"
    /\ LET flat == Flatten(local.result)
           todo == {k \in local.i..Len(flat) : NeedsLookup(flat[k], userCache)}
       IN  IF todo = {}
           THEN /\ local' = [local EXCEPT !.i = Len(flat) + 1]
                /\ pc' = "wo"
           ELSE /\ local' = [local EXCEPT !.i = CHOOSE k \in todo : \A h \in todo : k <= h]
                /\ pc' = "ui_call"
    /\ drain' = NoDrain
    /\ UNCHANGED <<caches, files, op, args, inflight, ret, outputs, opsLeft, infoCalls, remote>>

\* the users.info requests issued so far for a user id
InfoCalls(userId) == IF MapHas(infoCalls, userId) THEN MapGet(infoCalls, userId) ELSE 0

UserInfoRequest ==
    /\ op = "export"
    /\ pc = "ui_call"
    /\ inflight = "none"
    /\ inflight' = "users.info"
    /\ LET userId == Flatten(local.result)[local.i].user
       IN  infoCalls' = MapSet(infoCalls, userId, InfoCalls(userId) + 1)
    /\ pc' = "ui_wait"
    /\ UNCHANGED <<caches, files, op, args, local, drain, ret, outputs, opsLeft, remote>>

\* the name getUserName takes from a users.info answer
UserInfoName(user, userId) ==
    FirstTruthy(<< ProfileField(user, "display_name"),
                   ProfileField(user, "real_name"),
                   user.real_name,
                   userId >>)

\* a failed lookup yields no name at all
GetUserNameOrNothing(userId, response) ==
    IF response.threw THEN Absent
    ELSE IF ~response.ok \/ "user" \notin DOMAIN response THEN Absent
    ELSE UserInfoName(response.user, userId)

\* getUserName after the await: the answer, or the exception caught
GetUserName(userId, response) ==
    IF response.threw THEN userId
    ELSE IF ~response.ok \/ "user" \notin DOMAIN response THEN userId
    ELSE UserInfoName(response.user, userId)

UserInfoResponse(response) ==
    /\ op = "export"
    /\ pc = "ui_wait"
    /\ inflight' = "none"
    /\ LET userId == Flatten(local.result)[local.i].user
       IN  userCache' = MapSet(userCache, userId, GetUserName(userId, response))
    /\ drain' = [NewDrain("users.info") EXCEPT
                     !.reqs = 1, !.pages = <<response>>, !.status = "done"]
    /\ pc' = "fmt"
    /\ UNCHANGED <<channelNameToIdCache, channelIdToNameCache, files, op, args,
                   local, ret, outputs, opsLeft, infoCalls, remote>>

(***************************************************************************)
(* export: what the formatters write.  A Date is the milliseconds of its   *)
(* getTime(); the literals of the formatters are written as word tokens.   *)
(***************************************************************************)
\* message.text, message.bot_id, ...: a property the object may not have
Field(object, name) == IF name \in DOMAIN object THEN object[name] ELSE Absent

\* new Date() while the export runs: 4 January 1970; the messages of the
\* channel were sent before
Now == 3 * 86400000 + clock

\* parseTimestamp(ts)
ParseTimestamp(ts) == IF ~Truthy(ts) THEN Now ELSE ParseFloat(ts) * 100

\* year, month and day of the day that many days after 1 January 1970
CivilFromDays(days) ==
    LET z == days + 719468
        era == z \div 146097
        doe == z - era * 146097
        yoe == (doe - doe \div 1460 + doe \div 36524 - doe \div 146096) \div 365
        doy == doe - (365 * yoe + yoe \div 4 - yoe \div 100)
        mp == (5 * doy + 2) \div 153
        month == IF mp < 10 THEN mp + 3 ELSE mp - 9
    IN  [year |-> yoe + era * 400 + (IF month <= 2 THEN 1 ELSE 0),
         month |-> month,
         day |-> doy - (153 * mp + 2) \div 5 + 1]

\* the fields of a Date in the time zone `offset` milliseconds east of UTC
DateFields(time, offset) ==
    LET shifted == time + offset
        inDay == shifted % 86400000
    IN  [date |-> CivilFromDays(shifted \div 86400000),
         hours |-> inDay \div 3600000,
         minutes |-> (inDay \div 60000) % 60,
         seconds |-> (inDay \div 1000) % 60,
         millis |-> inDay % 1000]

\* String.prototype.padStart(width, "0")
RECURSIVE PadStart(_, _)
PadStart(s, width) == IF Len(s) >= width THEN s ELSE PadStart(<<"0">> \o s, width)

\* formatDate(date): the calendar date in the time zone of the process
FormatDate(date) ==
    LET f == DateFields(date, remote.zone).date
    IN  Digits(f.year) \o <<"-">> \o PadStart(Digits(f.month), 2)
        \o <<"-">> \o PadStart(Digits(f.day), 2)

\* formatTime(date)
FormatTime(date) ==
    LET f == DateFields(date, remote.zone)
    IN  PadStart(Digits(f.hours), 2) \o <<":">> \o PadStart(Digits(f.minutes), 2)

\* Date.prototype.toISOString
ToISOString(date) ==
    LET f == DateFields(date, 0)
    IN  PadStart(Digits(f.date.year), 4) \o <<"-">> \o PadStart(Digits(f.date.month), 2)
        \o <<"-">> \o PadStart(Digits(f.date.day), 2) \o <<"T">>
        \o PadStart(Digits(f.hours), 2) \o <<":">> \o PadStart(Digits(f.minutes), 2)
        \o <<":">> \o PadStart(Digits(f.seconds), 2) \o <<".">>
        \o PadStart(Digits(f.millis), 3) \o <<"Z">>

\* resolveUserName(message) once getUserName has the author in its cache
ResolveUserName(message, cache) ==
    IF Truthy(Field(message, "user")) THEN MapGet(cache, message.user)
    ELSE IF Truthy(Field(message, "bot_id"))
    THEN (IF Truthy(Field(message, "username")) THEN message.username
          ELSE <<"bot", ":">> \o message.bot_id)
    ELSE <<"unknown">>

\* Array.prototype.join: the parts in order with the separator between them
\* (computed half by half)
RECURSIVE Join(_, _)
Join(parts, separator) ==
    IF parts = <<>> THEN <<>>
    ELSE IF Len(parts) = 1 THEN parts[1]
    ELSE LET half == Len(parts) \div 2
         IN  Join(SubSeq(parts, 1, half), separator) \o separator
             \o Join(SubSeq(parts, half + 1, Len(parts)), separator)

\* String.prototype.split("\n")
RECURSIVE SplitLines(_)
SplitLines(text) ==
    LET breaks == {k \in 1..Len(text) : text[k] = "\n"}
    IN  IF breaks = {} THEN <<text>>
        ELSE LET first == CHOOSE k \in breaks : \A h \in breaks : k <= h
             IN  <<SubSeq(text, 1, first - 1)>>
                 \o SplitLines(SubSeq(text, first + 1, Len(text)))

\* formatMessageText(text)
FormatMessageText(text) == Trim(text)

\* the newlines are kept as they are
KeepNewlines(text) == text

\* text.replace(/\r\n|\r|\n/g, " ")
RECURSIVE CollapseNewlines(_)
CollapseNewlines(text) ==
    IF text = <<>> THEN <<>>
    ELSE IF Len(text) >= 2 /\ text[1] = "\r" /\ text[2] = "\n"
    THEN <<" ">> \o CollapseNewlines(SubSeq(text, 3, Len(text)))
    ELSE IF text[1] \in {"\r", "\n"} THEN <<" ">> \o CollapseNewlines(Tail(text))
    ELSE <<text[1]>> \o CollapseNewlines(Tail(text))

\* sanitizeText(text)
SanitizeText(text) == Trim(CollapseNewlines(text))

\* value.replace(/"/g, '""')
RECURSIVE DoubleQuotes(_)
DoubleQuotes(value) ==
    IF value = <<>> THEN <<>>
    ELSE (IF value[1] = "\"" THEN <<"\"", "\"">> ELSE <<value[1]>>)
         \o DoubleQuotes(Tail(value))

\* escapeCsv(value)
EscapeCsv(value) ==
    LET needsQuotes == \E k \in 1..Len(value) : value[k] \in {"\"", ",", "\n"}
        escaped == DoubleQuotes(value)
    IN  IF needsQuotes THEN <<"\"">> \o escaped \o <<"\"">> ELSE escaped

\* os.EOL of the platform the tool runs on
EOL == <<"\n">>

\* [ ... ].join(",") of the escaped fields of one row
CsvRow(fields) == Join([k \in 1..Len(fields) |-> EscapeCsv(fields[k])], <<",">>)

\* the thread_ts column of a reply holds the reply's own ts
ReplyRowWithOwnTs(channelName, reply, cache) ==
    CsvRow(<< ToISOString(ParseTimestamp(Field(reply, "ts"))),
              channelName,
              ResolveUserName(reply, cache),
              SanitizeText(Nullish(Field(reply, "text"), <<>>)),
              Nullish(Field(reply, "ts"), <<>>),
              <<"0">> >>)

\* the row formatAsCsv pushes for a reply
ReplyRow(channelName, reply, cache) ==
    CsvRow(<< ToISOString(ParseTimestamp(Field(reply, "ts"))),
              channelName,
              ResolveUserName(reply, cache),
              SanitizeText(Nullish(Field(reply, "text"), <<>>)),
              Nullish(Field(reply, "thread_ts"), <<>>),
              <<"0">> >>)

\* the row formatAsCsv pushes for the message of an aggregate
MessageRow(channelName, message, cache) ==
    CsvRow(<< ToISOString(ParseTimestamp(Field(message, "ts"))),
              channelName,
              ResolveUserName(message, cache),
              SanitizeText(Nullish(Field(message, "text"), <<>>)),
              Nullish(Field(message, "thread_ts"), <<>>),
              Digits(IF "reply_count" \in DOMAIN message
                     THEN message.reply_count ELSE 0) >>)

\* the rows of for (const { message, replies } of messages)
RECURSIVE CsvRows(_, _, _)
CsvRows(channelName, messages, cache) ==
    IF messages = <<>> THEN <<>>
    ELSE <<MessageRow(channelName, messages[1].message, cache)>>
         \o [k \in 1..Len(messages[1].replies) |->
                ReplyRow(channelName, messages[1].replies[k], cache)]
         \o CsvRows(channelName, Tail(messages), cache)

\* formatAsCsv(channelName, messages)
FormatAsCsv(channelName, messages, cache) ==
    Join(<< <<"timestamp", ",", "channel", ",", "user", ",", "text", ",",
              "thread_ts", ",", "reply_count">> >>
         \o CsvRows(channelName, messages, cache), EOL)

\* the lines formatAsMarkdown pushes for the replies of one message
RECURSIVE MarkdownReplies(_, _)
MarkdownReplies(replies, cache) ==
    IF replies = <<>> THEN <<>>
    ELSE LET reply == replies[1]
             replyTimeStr == FormatTime(ParseTimestamp(Field(reply, "ts")))
             replyText == FormatMessageText(Nullish(Field(reply, "text"), <<>>))
             textLines == SplitLines(replyText)
         IN  << <<">", " ", "*", "*">> \o replyTimeStr \o <<" ", "@">>
                    \o ResolveUserName(reply, cache) \o <<"*", "*">> >>
             \o [k \in 1..Len(textLines) |-> <<">", " ">> \o textLines[k]]
             \o << <<>> >>
             \o MarkdownReplies(Tail(replies), cache)

\* every message gets a date heading of its own
DateHeadingAlways(dateStr, currentDate) == << <<"#", "#", " ">> \o dateStr, <<>> >>

\* if (dateStr !== currentDate) { ...; lines.push(`## ${dateStr}`); lines.push("") }
DateHeading(dateStr, currentDate) ==
    IF dateStr # currentDate THEN << <<"#", "#", " ">> \o dateStr, <<>> >> ELSE <<>>

\* the lines of for (const { message, replies } of messages), currentDate
\* being the date of the message before
RECURSIVE MarkdownMessages(_, _, _)
MarkdownMessages(messages, cache, currentDate) ==
    IF messages = <<>> THEN <<>>
    ELSE LET message == messages[1].message
             timestamp == ParseTimestamp(Field(message, "ts"))
             dateStr == FormatDate(timestamp)
         IN  DateHeading(dateStr, currentDate)
             \o << <<"#", "#", "#", " ">> \o FormatTime(timestamp) \o <<" ", "@">>
                       \o ResolveUserName(message, cache),
                   FormatMessageText(Nullish(Field(message, "text"), <<>>)),
                   <<>> >>
             \o MarkdownReplies(messages[1].replies, cache)
             \o MarkdownMessages(Tail(messages), cache, dateStr)

\* the lines of formatAsMarkdown before lines.join("\n")
MarkdownLines(channelName, messages, cache) ==
    << <<"#", " ", "#">> \o channelName, <<>> >>
    \o MarkdownMessages(messages, cache, <<>>)

\* formatAsMarkdown(channelName, messages)
FormatAsMarkdown(channelName, messages, cache) ==
    Join(MarkdownLines(channelName, messages, cache), <<"\n">>)

\* the lines `${indent}${line}` of a block of text
Indented(indent, text) ==
    LET textLines == SplitLines(text)
    IN  [k \in 1..Len(textLines) |-> indent \o textLines[k]]

\* the lines formatAsYaml pushes for the replies of one message
RECURSIVE YamlReplies(_, _)
YamlReplies(replies, cache) ==
    IF replies = <<>> THEN <<>>
    ELSE LET reply == replies[1]
         IN  << <<"      - ts: ", "\"">> \o Nullish(Field(reply, "ts"), <<>>) \o <<"\"">>,
                <<"        time: ", "\"">>
                    \o FormatTime(ParseTimestamp(Field(reply, "ts"))) \o <<"\"">>,
                <<"        user: ">> \o ResolveUserName(reply, cache),
                <<"        text: |">> >>
             \o Indented(<<"          ">>, Nullish(Field(reply, "text"), <<>>))
             \o YamlReplies(Tail(replies), cache)

\* the lines of for (const { message, replies } of messages) in formatAsYaml
RECURSIVE YamlMessages(_, _)
YamlMessages(messages, cache) ==
    IF messages = <<>> THEN <<>>
    ELSE LET message == messages[1].message
             timestamp == ParseTimestamp(Field(message, "ts"))
         IN  << <<"  - ts: ", "\"">> \o Nullish(Field(message, "ts"), <<>>) \o <<"\"">>,
                <<"    date: ", "\"">> \o FormatDate(timestamp) \o <<"\"">>,
                <<"    time: ", "\"">> \o FormatTime(timestamp) \o <<"\"">>,
                <<"    user: ">> \o ResolveUserName(message, cache),
                <<"    text: |">> >>
             \o Indented(<<"      ">>, Nullish(Field(message, "text"), <<>>))
             \o (IF Len(messages[1].replies) > 0
                 THEN << <<"    replies:">> >> \o YamlReplies(messages[1].replies, cache)
                 ELSE << <<"    replies: []">> >>)
             \o YamlMessages(Tail(messages), cache)

\* formatAsYaml(channelName, messages)
FormatAsYaml(channelName, messages, cache) ==
    Join(<< <<"channel: ">> \o channelName,
            <<"exported_at: ">> \o ToISOString(Now),
            <<"messages:">> >>
         \o YamlMessages(messages, cache), <<"\n">>)

\* options.format === "csv" ? ... : options.format === "yaml" ? ... : ...
Content ==
    IF args.format = "csv"
    THEN FormatAsCsv(local.channelName, local.result, userCache)
    ELSE IF args.format = "yaml"
    THEN FormatAsYaml(local.channelName, local.result, userCache)
    ELSE FormatAsMarkdown(local.channelName, local.result, userCache)

\* format === "csv" ? "csv" : format === "yaml" ? "yaml" : "md"
Extension(format) ==
    IF format = "csv" THEN "csv" ELSE IF format = "yaml" THEN "yaml" ELSE "md"

\* writeOutput(content, channelName, format, outputDir) and export's return
WriteOutput ==
    /\ op = "export"
    /\ pc = "wo"
    /\ outputs' = Append(outputs, [name |-> local.channelName,
                                    extension |-> Extension(args.format),
                                    content |-> Content])
    /\ ret' = Returned([filePath |-> local.channelName,
                        messageCount |-> Len(local.messages)])
    /\ pc' = "done"
    /\ UNCHANGED <<caches, files, op, args, local, inflight, drain, opsLeft, infoCalls, remote>>

(***************************************************************************)
(* An awaited remote call may reject instead of answering.  Only getUserName *)
(* wraps its call in try/catch; everywhere else the rejection leaves the   *)
(* method, its callers and the operation.                                  *)
(***************************************************************************)
\* the awaits that no try/catch surrounds
UncaughtWaits == {"lc_wait", "rc_wait", "ci_wait", "h_wait", "r_wait", "ul_wait"}

RequestRejected ==
    /\ pc \in UncaughtWaits
    /\ inflight' = "none"
    /\ drain' = [drain EXCEPT !.status = "rejected"]
    /\ Throw("Request rejected", Absent)
    /\ UNCHANGED <<caches, files, op, args, local, outputs, opsLeft, infoCalls, remote>>

(***************************************************************************)
(* The operation has returned or thrown; its caller takes the outcome.     *)
(***************************************************************************)
Return ==
    /\ pc = "done"
    /\ op' = "idle"
    /\ pc' = "idle"
    /\ args' = NoArgs
    /\ local' = NoLocal
    /\ drain' = NoDrain
    /\ ret' = NoRet
    /\ outputs' = <<>>
    /\ UNCHANGED <<caches, files, inflight, opsLeft, infoCalls, remote>>

(***************************************************************************)
(* The remote's answers and the callers' inputs.                           *)
(***************************************************************************)
Profile(display_name, real_name) ==
    [display_name |-> display_name, real_name |-> real_name]

MemA == [id |-> UserU1, profile |-> Profile(<<" ", "a">>, <<"r">>), real_name |-> <<"r">>]
MemA2 == [id |-> UserU1, profile |-> Profile(<<"z">>, Absent), real_name |-> Absent]
MemB == [id |-> UserU2, profile |-> Profile(<<>>, <<"b", " ">>), real_name |-> Absent]
MemNoId == [id |-> Absent, real_name |-> <<"q">>]

\* the contents one page of users.list may have
MemberPages == {<<>>, <<MemA>>, <<MemB, MemA>>, <<MemA2>>, <<MemNoId, MemB>>}

\* the answers of users.info: an envelope, or an exception (rate limit or other)
UserInfoResponses ==
    {[threw |-> TRUE, rateLimited |-> r] : r \in BOOLEAN}
    \cup {[threw |-> FALSE, ok |-> FALSE], [threw |-> FALSE, ok |-> TRUE]}
    \cup {[threw |-> FALSE, ok |-> TRUE, user |-> u] : u \in {MemA, MemB, MemNoId}}

\* a remote with little variety: every call can fail or succeed, every
\* listing can take several pages, and the pages always hold the same items
PlainRemote ==
    [ channelRefs  |-> {IdC1},
      channelPages |-> {<<Ch(IdC1, NameG)>>},
      historyPages |-> {<<MsgPlain>>},
      repliesPages |-> {<<MsgRoot, MsgReply>>},
      memberPages  |-> {<<MemA>>},
      userInfos    |-> {[threw |-> FALSE, ok |-> FALSE]},
      dates        |-> {NoDates},
      formats      |-> {"yaml"},
      zone         |-> 0 ]

\* remotes with all the variety in one area each
ChannelRemote ==
    [PlainRemote EXCEPT !.channelRefs = ChannelRefs, !.channelPages = ChannelPages]
HistoryRemote ==
    [PlainRemote EXCEPT !.historyPages = HistoryPages, !.repliesPages = RepliesPages]
UserRemote ==
    [PlainRemote EXCEPT !.historyPages = {<<MsgPlain, MsgOther>>},
                        !.memberPages = MemberPages, !.userInfos = UserInfoResponses]

\* exports between two dates, from a date on and without dates, of a channel
\* with messages inside and outside these dates; the remote may answer with
\* any of them
DatedRemote ==
    [PlainRemote EXCEPT
        !.historyPages = {<<MsgAt("2")>>, <<MsgAt("3"), MsgAt("1"), MsgAt("2")>>},
        !.dates = {NoDates, Dates(150000, 250000), [startDate |-> 150000]}]

\* messages with a text, at a time given in seconds or without one
MsgSaid(ts, text) == [ts |-> ts, user |-> UserU1, thread_ts |-> Absent, text |-> text]
ReplySaid(ts, text) == [ts |-> ts, user |-> UserU2, thread_ts |-> <<"1">>, text |-> text]
Evening == <<"7", "2", "0", "0", "0">>
NextDay == <<"9", "0", "0", "0", "0", ".", "5">>
Today == <<"2", "5", "9", "3", "0", "0">>

\* exports in every format, in UTC and nine hours east of it, of a channel
\* with messages of several days, delivered in any order, and with a thread
RenderRemote ==
    [PlainRemote EXCEPT
        !.historyPages =
            { <<MsgSaid(NextDay, <<"a", ",", "\"">>), MsgSaid(Evening, <<" ", "a", "\n", "b", "\r", "\n">>)>>,
              <<MsgSaid(Today, <<"a">>), MsgSaid(Absent, <<>>), MsgRoot>> },
        !.repliesPages =
            { <<MsgRoot, ReplySaid(<<"2">>, <<"\"", "a", "\"">>),
                ReplySaid(<<"3">>, <<"a", "\n", "\n", "b">>)>> },
        !.formats = {"csv", "markdown", "yaml"}]
Zones == {0, 9 * 3600000}

\* the snapshots an earlier run of the program may have left behind
OldChannelFile == SnapshotOf(0, <<<<NameG, IdC1>>, <<NameD, IdC2>>>>)
OldUserFile == SnapshotOf(0, <<<<UserU1, <<"a">>>>>>)
FullUserFile == SnapshotOf(0, <<<<UserU1, <<"a">>>>, <<UserU2, <<"b">>>>>>)
CommaUserFile == SnapshotOf(0, <<<<UserU1, <<"a", ",", "c">>>>, <<UserU2, <<"b">>>>>>)

\* a run: the remote the process talks to and the snapshot files it finds
Scenario(r, channelFiles, userFiles) ==
    /\ remote = r
    /\ channelFile \in channelFiles
    /\ userFile \in userFiles

\* one step of the exporter; the remote answers what it can in this run
Next ==
    \/ \E refreshCache \in BOOLEAN : ListChannels(refreshCache)
    \/ ListChannelsRequest
    \/ \E response \in PageResponses("channels", remote.channelPages, MayHaveMore) :
          ListChannelsResponse(response)
    \/ ListChannelsSave
    \/ \E refreshCache \in BOOLEAN : PrefetchUsersToCache(refreshCache)
    \/ \E channelIdOrName \in remote.channelRefs, dates \in remote.dates,
          format \in remote.formats :
          Export(channelIdOrName, dates, format)
    \/ ResolveRequest
    \/ \E response \in PageResponses("channels", remote.channelPages, MayHaveMore) :
          ResolveResponse(response)
    \/ ResolveSave
    \/ GetChannelName
    \/ ChannelInfoRequest
    \/ /\ pc = "ci_wait"
       /\ \E response \in ChannelInfoResponses(local.channelId) :
             ChannelInfoResponse(response)
    \/ HistoryRequest
    \/ \E response \in PageResponses("messages", remote.historyPages, MayHaveMore) :
          HistoryResponse(response)
    \/ HistoryReturn
    \/ ExpandThreads
    \/ RepliesRequest
    \/ \E response \in PageResponses("messages", remote.repliesPages, MayHaveMore) :
          RepliesResponse(response)
    \/ RepliesReturn
    \/ Delay
    \/ ExportPrefetchUsers
    \/ UsersListRequest
    \/ \E response \in PageResponses("members", remote.memberPages, MayHaveMore) :
          UsersListResponse(response)
    \/ UsersSave
    \/ Format
    \/ UserInfoRequest
    \/ \E response \in remote.userInfos : UserInfoResponse(response)
    \/ WriteOutput
    \/ RequestRejected
    \/ Return

\* main() of the command-line tool: one process, one exporter, one operation
Init ==
    /\ Constructed
    /\ opsLeft = 1
    /\ \/ Scenario(ChannelRemote, {NoFile, OldChannelFile}, {FullUserFile})
       \/ Scenario(HistoryRemote, {OldChannelFile}, {FullUserFile})
       \/ Scenario(UserRemote, {OldChannelFile}, {NoFile, OldUserFile})
       \/ Scenario(DatedRemote, {OldChannelFile}, {FullUserFile})
       \/ \E zone \in Zones :
             Scenario([RenderRemote EXCEPT !.zone = zone], {OldChannelFile},
                      {CommaUserFile})

Spec == Init /\ [][Next]_vars

\* remotes for an exporter object that is used for several operations
ReuseChannelRemote ==
    [PlainRemote EXCEPT
        !.channelRefs = {NameG, <<"#">> \o NameG, <<"#">> \o IdC1, IdC1,
                         <<"constructor">>},
        !.channelPages = {<<Ch(IdC1, NameG)>>, <<Ch(IdC2, NameG)>>},
        !.historyPages = {<<>>}]
ReuseUserRemote ==
    [PlainRemote EXCEPT
        !.memberPages = {<<MemA>>, <<MemA2>>},
        !.userInfos = {[threw |-> TRUE, rateLimited |-> TRUE],
                       [threw |-> FALSE, ok |-> FALSE],
                       [threw |-> FALSE, ok |-> TRUE],
                       [threw |-> FALSE, ok |-> TRUE, user |-> MemB]}]
ReuseThreadRemote ==
    [PlainRemote EXCEPT !.historyPages = {<<MsgRoot>>}]

\* one exporter object used for up to MaxOps operations, one after another
ReuseInit ==
    /\ Constructed
    /\ opsLeft = MaxOps
    /\ \/ Scenario(ReuseChannelRemote, {NoFile, OldChannelFile}, {FullUserFile})
       \/ Scenario(ReuseUserRemote, {OldChannelFile}, {NoFile})
       \/ Scenario(ReuseThreadRemote, {OldChannelFile}, {FullUserFile})

SpecReuse == ReuseInit /\ [][Next]_vars

(***************************************************************************)
(* Several processes, one after another, on the same cache directory: each *)
(* constructs its own exporter, and only the snapshot files pass from one   *)
(* to the next.                                                            *)
(***************************************************************************)
\* new HistoryExporter(token) in a process started after the previous one
\* has ended: the in-memory caches are empty again, the files are as left
NewExporter ==
    /\ op = "idle"
    /\ opsLeft > 0
    /\ caches # <<EmptyMap, EmptyMap, EmptyMap>>
    /\ channelNameToIdCache' = EmptyMap
    /\ channelIdToNameCache' = EmptyMap
    /\ userCache' = EmptyMap
    /\ UNCHANGED <<files, op, args, pc, local, inflight, drain, ret, outputs,
                   infoCalls, remote, opsLeft>>

FreshNext == Next \/ NewExporter

SpecFresh == ReuseInit /\ [][FreshNext]_vars

(***************************************************************************)
(* index.ts: main() takes the parsed command line, checks it and starts    *)
(* one operation of a new exporter, or ends the process.                   *)
(***************************************************************************)
\* /^(\d{4})-(\d{2})-(\d{2})$/
IsDigit(c) == c \in {"0", "1", "2", "3", "4", "5", "6", "7", "8", "9"}
DateShaped(dateStr) ==
    /\ Len(dateStr) = 10
    /\ dateStr[5] = "-" /\ dateStr[8] = "-"
    /\ \A k \in {1, 2, 3, 4, 6, 7, 9, 10} : IsDigit(dateStr[k])

\* the days from 1970-01-01 to the first day of a month (months 1..12)
DaysToMonth(year, month) ==
    LET y == IF month <= 2 THEN year - 1 ELSE year
        era == y \div 400
        yoe == y - era * 400
        doy == (153 * (IF month > 2 THEN month - 3 ELSE month + 9) + 2) \div 5
    IN  era * 146097 + yoe * 365 + yoe \div 4 - yoe \div 100 + doy - 719468

\* new Date(year, monthIndex, day).getTime(), the time zone being UTC: years
\* 0..99 count from 1900, months and days beyond their range carry over
MakeTime(year, monthIndex, day) ==
    LET full == IF year \in 0..99 THEN 1900 + year ELSE year
    IN  (DaysToMonth(full + monthIndex \div 12, (monthIndex % 12) + 1) + day - 1)
            * 86400000

\* parseDate(dateStr): undefined, a Date, or process.exit(1)
ParseDate(dateStr) ==
    IF ~Truthy(dateStr) THEN [kind |-> "undefined"]
    ELSE IF ~DateShaped(dateStr) THEN [kind |-> "exit"]
    ELSE [kind |-> "date",
          time |-> MakeTime(DigitsValue(SubSeq(dateStr, 1, 4)),
                            DigitsValue(SubSeq(dateStr, 6, 7)) - 1,
                            DigitsValue(SubSeq(dateStr, 9, 10)))]

\* the value is not looked at
OptionDateUnparsed(dateStr) == [kind |-> "undefined"]

\* args.from ? parseDate(args.from) : undefined, and likewise args.to
OptionDate(dateStr) ==
    IF Truthy(dateStr) THEN ParseDate(dateStr) ELSE [kind |-> "undefined"]

\* startDate and endDate of the ExportOptions
OptionsDates(startDate, endDate) ==
    [field \in (IF startDate.kind = "date" THEN {"startDate"} ELSE {})
                \cup (IF endDate.kind = "date" THEN {"endDate"} ELSE {}) |->
        IF field = "startDate" THEN startDate.time ELSE endDate.time]

\* process.exit(code): nothing runs after it
Exit(code) ==
    /\ op = "idle"
    /\ opsLeft > 0
    /\ opsLeft' = opsLeft - 1
    /\ op' = "exited"
    /\ pc' = "exited"
    /\ ret' = [kind |-> "exit", code |-> code]
    /\ UNCHANGED <<caches, files, args, local, inflight, drain, outputs, infoCalls,
                   remote>>

Main ==
    LET cli == remote.argv
    IN  IF ~cli.token THEN Exit(1)
        ELSE IF cli.listChannels THEN ListChannels(cli.refreshCache)
        ELSE IF cli.prefetchUsers THEN PrefetchUsersToCache(cli.refreshCache)
        ELSE IF ~Truthy(cli.channel) THEN Exit(1)
        ELSE IF OptionDate(cli.from).kind = "exit" THEN Exit(1)
        ELSE IF OptionDate(cli.to).kind = "exit" THEN Exit(1)
        ELSE Export(cli.channel, OptionsDates(OptionDate(cli.from), OptionDate(cli.to)),
                    IF "format" \in DOMAIN cli THEN cli.format ELSE "yaml")

\* the values --from and --to may have: none, an empty one, dates of the
\* shape asked for, and others
GoodDate == <<"1", "9", "7", "0", "-", "0", "1", "-", "0", "2">>
OddDate == <<"0", "0", "6", "9", "-", "1", "3", "-", "0", "3">>
BadDates == { <<"1", "9", "7", "0", "-", "1", "-", "2">>,
              <<"1", "9", "7", "0", "/", "0", "1", "/", "0", "2">> }

\* the parsed command lines (CliArgs) and whether SLACK_USER_TOKEN is set:
\* exports with every value of --from and --to, the other modes with and
\* without dates, one run without a token
CommandLine(token, channel, from, to, listChannels, prefetchUsers, refreshCache) ==
    [token |-> token, channel |-> channel, from |-> from, to |-> to,
     listChannels |-> listChannels, prefetchUsers |-> prefetchUsers,
     refreshCache |-> refreshCache]
CommandLines ==
    {CommandLine(TRUE, channel, from, to, FALSE, FALSE, FALSE) :
        channel \in {Absent, IdC1},
        from \in {Absent, <<>>, GoodDate, OddDate} \cup BadDates,
        to \in {Absent, GoodDate} \cup BadDates}
    \cup {CommandLine(TRUE, NameG, Absent, Absent, FALSE, FALSE, FALSE)}
    \cup {[format |-> format] @@ CommandLine(TRUE, IdC1, Absent, Absent, FALSE, FALSE, FALSE) :
             format \in {"csv", "markdown"}}
    \cup {CommandLine(TRUE, channel, from, to, listChannels, ~listChannels, refreshCache) :
        channel \in {Absent, IdC1},
        from \in {Absent, GoodDate} \cup BadDates,
        to \in {Absent} \cup BadDates,
        listChannels \in BOOLEAN, refreshCache \in BOOLEAN}
    \cup {CommandLine(TRUE, Absent, Absent, Absent, TRUE, TRUE, FALSE),
          CommandLine(FALSE, IdC1, Absent, Absent, FALSE, FALSE, FALSE)}

\* a remote for every step of every mode
MainRemote ==
    [PlainRemote EXCEPT !.historyPages = {<<MsgRoot>>},
                        !.userInfos = {[threw |-> FALSE, ok |-> TRUE, user |-> MemB]}]

MainInit ==
    /\ Constructed
    /\ opsLeft = 1
    /\ channelFile \in {NoFile, OldChannelFile}
    /\ userFile = NoFile
    /\ remote \in {[argv |-> cli] @@ MainRemote : cli \in CommandLines}

MainNext ==
    \/ Main
    \/ ListChannelsRequest
    \/ \E response \in PageResponses("channels", remote.channelPages, MayHaveMore) :
          ListChannelsResponse(response)
    \/ ListChannelsSave
    \/ ResolveRequest
    \/ \E response \in PageResponses("channels", remote.channelPages, MayHaveMore) :
          ResolveResponse(response)
    \/ ResolveSave
    \/ GetChannelName
    \/ ChannelInfoRequest
    \/ /\ pc = "ci_wait"
       /\ \E response \in ChannelInfoResponses(local.channelId) :
             ChannelInfoResponse(response)
    \/ HistoryRequest
    \/ \E response \in PageResponses("messages", remote.historyPages, MayHaveMore) :
          HistoryResponse(response)
    \/ HistoryReturn
    \/ ExpandThreads
    \/ RepliesRequest
    \/ \E response \in PageResponses("messages", remote.repliesPages, MayHaveMore) :
          RepliesResponse(response)
    \/ RepliesReturn
    \/ Delay
    \/ ExportPrefetchUsers
    \/ UsersListRequest
    \/ \E response \in PageResponses("members", remote.memberPages, MayHaveMore) :
          UsersListResponse(response)
    \/ UsersSave
    \/ Format
    \/ UserInfoRequest
    \/ \E response \in remote.userInfos : UserInfoResponse(response)
    \/ WriteOutput
    \/ RequestRejected
    \/ Return

SpecMain == MainInit /\ [][MainNext]_vars

(***************************************************************************)
(* The name-selection policy on its own: getUserName's choice of a name    *)
(* from a users.info answer and extractDisplayName's from a member.        *)
(***************************************************************************)
\* the texts a name field may hold
Texts == UNION {[1..n -> {" ", "a"}] : n \in 0..MaxText}

\* the users a remote may describe: with or without a profile, every name
\* field set or not
NamedUsers ==
    {[id |-> id, profile |-> Profile(d, r), real_name |-> t] :
        id \in {Absent, UserU1}, d \in Texts \cup {Absent},
        r \in Texts \cup {Absent}, t \in Texts \cup {Absent}}
    \cup {[id |-> id, real_name |-> t] :
        id \in {Absent, UserU1}, t \in Texts \cup {Absent}}

\* a remote that describes one user, in users.info and in users.list alike
NamesRemote(user) ==
    [PlainRemote EXCEPT
        !.userInfos = {[threw |-> FALSE, ok |-> TRUE, user |-> user]},
        !.memberPages = {<<user>>}]

NamesInit ==
    /\ Constructed
    /\ opsLeft = 0
    /\ channelFile = NoFile
    /\ userFile = NoFile
    /\ remote \in {NamesRemote(user) : user \in NamedUsers}

\* getUserName(userId) on the users.info answer that carries the user
SelectName(userId) ==
    /\ op = "idle"
    /\ op' = "getUserName"
    /\ args' = [userId |-> userId]
    /\ \E response \in remote.userInfos :
          ret' = Returned(GetUserName(userId, response))
    /\ UNCHANGED <<caches, files, pc, local, inflight, drain, outputs,
                   infoCalls, remote, opsLeft>>

\* extractDisplayName(member) on the member of the users.list page
ExtractName ==
    /\ op = "idle"
    /\ op' = "extractDisplayName"
    /\ args' = NoArgs
    /\ \E members \in remote.memberPages :
          ret' = Returned(ExtractDisplayName(members[1]))
    /\ UNCHANGED <<caches, files, pc, local, inflight, drain, outputs,
                   infoCalls, remote, opsLeft>>

NamesNext == SelectName(UserU2) \/ ExtractName

SpecNames == NamesInit /\ [][NamesNext]_vars

(***************************************************************************)
(* The rendering of one text field of the delimited output on its own:     *)
(* formatAsCsv hands message.text to sanitizeText and the result to        *)
(* escapeCsv.                                                              *)
(***************************************************************************)
\* the texts a message may carry: letters, spaces, commas, double quotes,
\* line feeds and carriage returns
FieldChars == {"a", " ", ",", "\"", "\n", "\r"}
FieldTexts == UNION {[1..n -> FieldChars] : n \in 0..MaxText + 1}

CsvInit ==
    /\ Constructed
    /\ opsLeft = 0
    /\ channelFile = NoFile
    /\ userFile = NoFile
    /\ remote \in {[PlainRemote EXCEPT !.historyPages = {<<MsgSaid(<<"1">>, text)>>}] :
                      text \in FieldTexts}

\* const text = this.sanitizeText(message.text ?? "")
SanitizeField ==
    /\ op = "idle"
    /\ op' = "sanitizeText"
    /\ \E page \in remote.historyPages :
          /\ args' = [text |-> Nullish(Field(page[1], "text"), <<>>)]
          /\ ret' = Returned(SanitizeText(args'.text))
    /\ UNCHANGED <<caches, files, pc, local, inflight, drain, outputs,
                   infoCalls, remote, opsLeft>>

\* this.escapeCsv(text)
EscapeField ==
    /\ op = "sanitizeText"
    /\ op' = "escapeCsv"
    /\ ret' = Returned(EscapeCsv(ret.value))
    /\ UNCHANGED <<caches, files, args, pc, local, inflight, drain, outputs,
                   infoCalls, remote, opsLeft>>

CsvNext == SanitizeField \/ EscapeField

SpecCsv == CsvInit /\ [][CsvNext]_vars

(***************************************************************************)
(* Properties of the paged drains.                                         *)
(***************************************************************************)
PagedKinds ==
    {"conversations.list", "conversations.history", "conversations.replies",
     "users.list"}

CallPcs == {"lc_call", "rc_call", "h_call", "r_call", "ul_call"}
WaitPcs == {"lc_wait", "rc_wait", "h_wait", "r_wait", "ul_wait"}

\* the items of the pages received, page after page
RECURSIVE AllItems(_, _)
AllItems(pages, field) ==
    IF pages = <<>> THEN <<>>
    ELSE (IF field \in DOMAIN Head(pages) THEN Head(pages)[field] ELSE <<>>)
         \o AllItems(Tail(pages), field)

\* the page succeeded and names a following page
HasMore(page) ==
    /\ page.ok
    /\ "next_cursor" \in DOMAIN page
    /\ page.next_cursor # Absent
    /\ page.next_cursor # <<>>

HasId(item) == item.id # Absent /\ item.id # <<>>
HasIdAndName(item) == HasId(item) /\ item.name # Absent /\ item.name # <<>>

\* the value the last pair <<key, value>> of a sequence gives a key, else what
\* the map held before
LastWins(beforeMap, pairs, key) ==
    LET at == {i \in 1..Len(pairs) : pairs[i][1] = key}
    IN  IF at = {} THEN MapGet(beforeMap, key)
        ELSE pairs[CHOOSE i \in at : \A j \in at : j <= i][2]

\* the map holds what it held before, overlaid with the pairs, the last winning
IsOverlay(map, beforeMap, pairs) ==
    /\ Keys(map) = Keys(beforeMap) \cup {pairs[i][1] : i \in 1..Len(pairs)}
    /\ \A key \in Keys(map) : MapGet(map, key) = LastWins(beforeMap, pairs, key)

\* one request per page (the request that awaits its page or was rejected
\* has none), and requests go on exactly while pages name a successor
OneRequestPerPage ==
    /\ drain.reqs = Len(drain.pages)
                       + (IF inflight = "none" /\ drain.status # "rejected"
                          THEN 0 ELSE 1)
    /\ \A k \in 1..(Len(drain.pages) - 1) : HasMore(drain.pages[k])
    /\ drain.status = "running" =>
          /\ pc \in CallPcs \cup WaitPcs
          /\ pc \in CallPcs /\ drain.pages # <<>> =>
                HasMore(drain.pages[Len(drain.pages)])
    /\ drain.status = "done" =>
          /\ drain.pages # <<>>
          /\ drain.pages[Len(drain.pages)].ok
          /\ ~HasMore(drain.pages[Len(drain.pages)])
          /\ inflight = "none"
          /\ pc \notin CallPcs \cup WaitPcs

\* C1 as the specification words it: every drain collects the plain
\* concatenation of its pages
C1_CollectedIsPlainConcatenation ==
    drain.kind \in PagedKinds /\ drain.status = "done" =>
        /\ OneRequestPerPage
        /\ pc = "lc_save" => local.channels = AllItems(drain.pages, "channels")
        /\ pc = "h_sort" => local.messages = AllItems(drain.pages, "messages")
        /\ pc = "r_ret" => local.replies = AllItems(drain.pages, "messages")
        /\ pc = "ul_save" =>
              local.userCount = Len(AllItems(drain.pages, "members"))

\* C1 (amended): every paged drain issues one request per page and stops
\* exactly after the first page whose next cursor is absent or empty.  History
\* messages and thread replies are collected as the plain concatenation of the
\* pages; the channel list collects, in page order then within-page order and
\* without de-duplication, only the channels that have both an id and a name
\* (in resolveChannelId, into a name-keyed map where the last delivery wins);
\* the user list collects only the members that have an id, counting each and
\* keeping, in the id-keyed user cache, the name of the last delivery.
C1_DrainCollectsKeptItemsInPageOrder ==
    drain.kind \in PagedKinds =>
        /\ OneRequestPerPage
        /\ drain.status = "done" =>
            /\ pc = "lc_save" =>
                  local.channels =
                      SelectSeq(AllItems(drain.pages, "channels"), HasIdAndName)
            /\ pc = "rc_save" =>
                  LET kept == SelectSeq(AllItems(drain.pages, "channels"),
                                        HasIdAndName)
                  IN  IsOverlay(local.allChannels, EmptyMap,
                                [i \in 1..Len(kept) |-> <<kept[i].name, kept[i].id>>])
            /\ pc = "h_sort" => local.messages = AllItems(drain.pages, "messages")
            /\ pc = "r_ret" => local.replies = AllItems(drain.pages, "messages")
            /\ pc = "ul_save" =>
                  LET kept == SelectSeq(AllItems(drain.pages, "members"), HasId)
                  IN  /\ local.userCount = Len(kept)
                      /\ IsOverlay(userCache, drain.before.users,
                             [i \in 1..Len(kept) |->
                                 <<kept[i].id, ExtractDisplayName(kept[i])>>])

\* a channel list of two pages that held a channel without a name and the
\* same channel twice
C1_TwoPagesWithNamelessAndRepeatedChannel ==
    /\ pc = "lc_save"
    /\ drain.status = "done"
    /\ Len(drain.pages) = 2
    /\ Len(local.channels) < Len(AllItems(drain.pages, "channels"))
    /\ \E i, j \in 1..Len(local.channels) : i < j /\ local.channels[i] = local.channels[j]

\* the pages of the drain that reported ok = false
FailedPages == {k \in 1..Len(drain.pages) : ~drain.pages[k].ok}

\* the reason a failed page gives, "unknown_error" when it gives none
ReasonOf(page) ==
    IF "error" \in DOMAIN page /\ page.error # Absent THEN page.error
    ELSE UnknownError

\* the message each drain's failure carries
WhatOf(kind) ==
    CASE kind = "conversations.list" -> "Failed to list channels"
      [] kind = "conversations.history" -> "Failed to fetch history"
      [] kind = "conversations.replies" -> "Failed to fetch thread replies"
      [] OTHER -> "none"

\* the failed page is the last one received and no request follows it
NoRequestAfterFailure ==
    /\ FailedPages = {Len(drain.pages)}
    /\ drain.reqs = Len(drain.pages)
    /\ inflight = "none"
    /\ pc \notin CallPcs \cup WaitPcs

\* the operation has thrown with the failed page's reason
FailedWithReason ==
    /\ pc = "done"
    /\ ret.kind = "error"
    /\ ret.reason = ReasonOf(drain.pages[Len(drain.pages)])

\* C2 as the specification words it: a failed page makes every paged drain
\* fail with the page's reason
C2_EveryDrainFailsFast ==
    drain.kind \in PagedKinds /\ FailedPages # {} =>
        NoRequestAfterFailure /\ FailedWithReason

\* C2 (amended): in every paged drain a page reporting ok = false is the last
\* one requested.  The channel-list, history and thread-reply drains then fail
\* at once with the remote reason ("unknown_error" when none is given) and
\* return nothing; the user-list drain only logs the failure: prefetchUsers
\* returns normally and the user cache keeps the members of the pages received
\* before the failed one.
C2_FailedPageEndsDrain ==
    drain.kind \in PagedKinds /\ FailedPages # {} =>
        /\ NoRequestAfterFailure
        /\ drain.kind # "users.list" =>
              FailedWithReason /\ ret.what = WhatOf(drain.kind)
        /\ drain.kind = "users.list" =>
              LET kept == SelectSeq(AllItems(drain.pages, "members"), HasId)
              IN  /\ ret.kind # "error"
                  /\ pc = IF op = "export" THEN "fmt" ELSE "done"
                  /\ op = "prefetchUsersToCache" => ret.kind = "value"
                  /\ IsOverlay(userCache, drain.before.users,
                         [i \in 1..Len(kept) |->
                             <<kept[i].id, ExtractDisplayName(kept[i])>>])

\* the second page of a history fetch failed without giving a reason
C2_HistoryFailedOnSecondPageWithoutReason ==
    /\ drain.kind = "conversations.history"
    /\ Len(drain.pages) = 2
    /\ FailedPages = {2}
    /\ drain.pages[2].error = Absent
    /\ ret.kind = "error"
    /\ ret.reason = UnknownError

(***************************************************************************)
(* Properties of export.                                                   *)
(***************************************************************************)
\* the failures of export's collection phase
CollectionFailures ==
    {"Failed to list channels", "Channel not found", "Unable to resolve channel",
     "Failed to fetch history", "Failed to fetch thread replies"}

\* C3: when export fails during channel resolution, the channel-name lookup,
\* the history fetch or a thread-reply fetch, the failure ends that export:
\* writeOutput has not been and will not be invoked, no output file exists
\* and the caller gets the error, not an ExportResult.
C3_FailedExportWritesNothing ==
    op = "export" =>
        /\ ret.kind = "error" =>
              /\ ret.what \in CollectionFailures \cup {"Request rejected"}
              /\ pc = "done"
              /\ outputs = <<>>
              /\ inflight = "none"
        /\ outputs # <<>> => pc = "done" /\ ret.kind = "value"

\* an export whose second thread-reply page failed, after the history succeeded
C3_ExportFailedInThreadReplies ==
    /\ op = "export"
    /\ pc = "done"
    /\ ret.kind = "error"
    /\ ret.what = "Failed to fetch thread replies"
    /\ Len(drain.pages) = 2
    /\ local.messages # <<>>
    /\ outputs = <<>>

(***************************************************************************)
(* Properties of the snapshot files and the in-memory caches.              *)
(***************************************************************************)
\* the drain of this kind has received its last page, and every page succeeded
LastPageSucceeded(kind) ==
    /\ drain.kind = kind
    /\ drain.status = "done"
    /\ drain.pages # <<>>
    /\ FailedPages = {}
    /\ \A k \in 1..(Len(drain.pages) - 1) : HasMore(drain.pages[k])
    /\ ~HasMore(drain.pages[Len(drain.pages)])

\* the drain is under way, or has met a failed page or a rejected request
Unfinished ==
    /\ drain.kind \in {"conversations.list", "users.list"}
    /\ drain.status \in {"running", "rejected"} \/ FailedPages # {}

\* C4: a snapshot file (channels or users) is written only by a step that
\* follows the successful last page of the corresponding full remote fetch;
\* while a channel-list or user-list drain is under way, and after it has
\* failed on some page, both files are exactly as they were when it started.
C4_SnapshotWrittenOnlyAfterLastPage ==
    [][ /\ channelFile' # channelFile => LastPageSucceeded("conversations.list")
        /\ userFile' # userFile => LastPageSucceeded("users.list")
        /\ Unfinished' =>
              /\ channelFile' = drain'.before.channelFile
              /\ userFile' = drain'.before.userFile ]_vars

\* a refreshing channel list failed on its second page and the channel
\* snapshot of an earlier run is still in place
C4_FailedRefreshLeftOldSnapshot ==
    /\ op = "listChannels"
    /\ drain.kind = "conversations.list"
    /\ FailedPages = {2}
    /\ channelFile.exists
    /\ channelFile = drain.before.channelFile
    /\ ret.kind = "error"

\* the <<name, id>> entries the pages of a channel list give
EntriesOfPages ==
    LET kept == SelectSeq(AllItems(drain.pages, "channels"), HasIdAndName)
    IN  [i \in 1..Len(kept) |-> <<kept[i].name, kept[i].id>>]

\* the entries turned round, <<id, name>>
Reversed(entries) == [i \in 1..Len(entries) |-> <<entries[i][2], entries[i][1]>>]

\* resolveChannelId's rebuild of the channel index met a failed page
RebuildFailed ==
    /\ op = "export"
    /\ drain.kind = "conversations.list"
    /\ FailedPages # {}

\* C5 as the specification words it: after a failed rebuild the in-memory maps
\* hold exactly what they held before it
C5_FailedRebuildKeepsNothing ==
    RebuildFailed =>
        /\ channelNameToIdCache = drain.before.nameToId
        /\ channelIdToNameCache = drain.before.idToName
        /\ channelFile = drain.before.channelFile

\* C5 (amended): if any page of the channel-list fetch in resolveChannelId
\* fails, the snapshot is not written and resolveChannelId fails, but the
\* in-memory name -> id and id -> name maps keep the entries of the pages
\* received before the failed one, laid over what they held before the rebuild.
C5_FailedRebuildKeepsEarlierPages ==
    RebuildFailed =>
        /\ channelFile = drain.before.channelFile
        /\ pc = "done"
        /\ ret.kind = "error"
        /\ ret.what = "Failed to list channels"
        /\ IsOverlay(channelNameToIdCache, drain.before.nameToId, EntriesOfPages)
        /\ IsOverlay(channelIdToNameCache, drain.before.idToName,
                     Reversed(EntriesOfPages))

\* a rebuild that failed on its second page, after the first page had given a
\* name another id than the one memory held
C5_FailedRebuildReplacedAnEntry ==
    /\ RebuildFailed
    /\ FailedPages = {2}
    /\ drain.before.nameToId # <<>>
    /\ \E key \in Keys(drain.before.nameToId) :
          MapGet(channelNameToIdCache, key) # MapGet(drain.before.nameToId, key)

\* the steps that load many entries at once: a page of users.list and the
\* user snapshot; a page of conversations.list and the channel snapshot
UserBulkLoad ==
    \/ pc = "ul_wait"
    \/ pc \in {"idle", "pu"} /\ userFile.exists

ChannelBulkLoad ==
    \/ pc = "rc_wait"
    \/ pc \in {"idle", "gn"} /\ channelFile.exists

\* C6 as the specification words it: no step gives an identifier that has a
\* name in an in-memory cache another name
C6_NamesNeverChange ==
    [][ /\ \A id \in Keys(userCache) :
              MapGet(userCache', id) = MapGet(userCache, id)
        /\ \A id \in Keys(channelIdToNameCache) :
              MapGet(channelIdToNameCache', id) = MapGet(channelIdToNameCache, id)
      ]_vars

\* C6 (amended): an identifier that maps to a name in an in-memory cache
\* stays mapped to a name for the rest of the run, and the single lookups
\* (users.info in getUserName, conversations.info in getChannelName) never
\* replace an entry; its name is replaced only by a bulk load: a users.list
\* page or the user snapshot in prefetchUsers, a conversations.list page or the
\* channel snapshot in resolveChannelId and getChannelName.
C6_NamesChangeOnlyByBulkLoad ==
    [][ /\ \A id \in Keys(userCache) :
              /\ MapHas(userCache', id)
              /\ Truthy(MapGet(userCache', id))
              /\ MapGet(userCache', id) # MapGet(userCache, id) => UserBulkLoad
        /\ \A id \in Keys(channelIdToNameCache) :
              /\ MapHas(channelIdToNameCache', id)
              /\ Truthy(MapGet(channelIdToNameCache', id))
              /\ MapGet(channelIdToNameCache', id) # MapGet(channelIdToNameCache, id)
                    => ChannelBulkLoad
      ]_vars

\* a forced refresh has given a user, whose name the cache held, another name
C6_RefreshReplacedAUserName ==
    /\ op = "prefetchUsersToCache"
    /\ drain.kind = "users.list"
    /\ drain.pages # <<>>
    /\ \E id \in Keys(drain.before.users) :
          MapGet(userCache, id) # MapGet(drain.before.users, id)

(***************************************************************************)
(* Properties of the user names.                                           *)
(***************************************************************************)
\* the single-user lookup failed: an exception (rate limit or other), a
\* not-ok envelope, or an envelope without a user
LookupFailed(response) ==
    \/ response.threw
    \/ ~response.ok
    \/ "user" \notin DOMAIN response

\* the user the formatter stands at
UserAtHand == Flatten(local.result)[local.i].user

\* C7: getUserName never raises; when its users.info lookup fails in any way
\* it stores id -> id in the user cache and hands the id on; it asks the
\* remote only for an id the cache does not hold, so that no id is asked
\* about more than once in a run.
C7_FailedLookupCachesIdOnce ==
    /\ \A id \in Keys(infoCalls) : MapGet(infoCalls, id) <= 1
    /\ pc \in {"ui_call", "ui_wait"} =>
          /\ ~MapHas(userCache, UserAtHand)
          /\ pc = "ui_wait" => InfoCalls(UserAtHand) = 1
    /\ op = "export" /\ pc = "fmt" /\ drain.kind = "users.info" =>
          /\ ret.kind = "none"
          /\ MapHas(userCache, UserAtHand)
          /\ LookupFailed(drain.pages[1]) =>
                MapGet(userCache, UserAtHand) = UserAtHand

\* a later export is about to format a message of a user whose only lookup
\* failed in an earlier export
C7_FailedUserMetAgain ==
    /\ op = "export"
    /\ pc = "fmt"
    /\ drain.kind # "users.info"
    /\ InfoCalls(UserU2) = 1
    /\ MapGet(userCache, UserU2) = UserU2
    /\ \E k \in 1..Len(Flatten(local.result)) : Flatten(local.result)[k].user = UserU2

\* the text without the spaces at its ends: from its first character that is
\* no space to its last
Stripped(s) ==
    LET solid == {k \in 1..Len(s) : s[k] # " "}
    IN  IF solid = {} THEN <<>>
        ELSE SubSeq(s, CHOOSE k \in solid : \A h \in solid : k <= h,
                       CHOOSE k \in solid : \A h \in solid : h <= k)

\* the user the policy was applied to, and the identifier it falls back on
PolicyUser == (CHOOSE members \in remote.memberPages : TRUE)[1]
PolicyId == IF op = "getUserName" THEN args.userId ELSE PolicyUser.id

\* a field of the profile, stripped; empty when the user has no profile or the
\* profile has no such field
StrippedField(user, field) ==
    IF "profile" \in DOMAIN user /\ user.profile[field] # Absent
    THEN Stripped(user.profile[field])
    ELSE <<>>

\* C8 as the specification words it: the stripped display name, else the
\* stripped real name of the profile, else the raw identifier
C8_TwoNamesThenIdentifier ==
    op \in {"getUserName", "extractDisplayName"} /\ PolicyId # Absent =>
        ret.value =
            IF StrippedField(PolicyUser, "display_name") # <<>>
            THEN StrippedField(PolicyUser, "display_name")
            ELSE IF StrippedField(PolicyUser, "real_name") # <<>>
            THEN StrippedField(PolicyUser, "real_name")
            ELSE PolicyId

\* C8 (amended): the policy returns the display name of the profile, trimmed,
\* when that is non-empty; else the real name of the profile, trimmed, when
\* that is non-empty; else the user's own top-level real_name, untrimmed, when
\* it is non-empty; else the raw identifier (in extractDisplayName the
\* member's id, or "unknown" for a member without one).  A user without any
\* of the three names resolves to the raw identifier.
C8_ThreeNamesThenIdentifier ==
    op \in {"getUserName", "extractDisplayName"} =>
        ret.value =
            IF StrippedField(PolicyUser, "display_name") # <<>>
            THEN StrippedField(PolicyUser, "display_name")
            ELSE IF StrippedField(PolicyUser, "real_name") # <<>>
            THEN StrippedField(PolicyUser, "real_name")
            ELSE IF PolicyUser.real_name # Absent /\ PolicyUser.real_name # <<>>
            THEN PolicyUser.real_name
            ELSE IF PolicyId # Absent
            THEN PolicyId
            ELSE <<"u", "n", "k", "n", "o", "w", "n">>

\* getUserName met a user whose profile holds only blank names and whose
\* top-level real_name begins with a space
C8_TopLevelRealNameChosenUntrimmed ==
    /\ op = "getUserName"
    /\ "profile" \in DOMAIN PolicyUser
    /\ PolicyUser.profile.display_name = <<" ">>
    /\ PolicyUser.profile.real_name = <<>>
    /\ PolicyUser.real_name = <<" ", "a">>
    /\ ret.value = <<" ", "a">>

(***************************************************************************)
(* Properties of resolveChannelId.                                         *)
(***************************************************************************)
\* resolveChannelId has returned to export, or has thrown
ResolveReturned == op = "export" /\ pc = "gn"
ResolveThrew ==
    /\ op = "export"
    /\ pc = "done"
    /\ ret.kind = "error"
    /\ ret.what \in {"Channel not found", "Failed to list channels"}
ResolveEnded == ResolveReturned \/ ResolveThrew

\* the reference as passed, whether it begins like an id, and the name in it
Reference == local.channelIdOrName
RawIdShaped == Reference # <<>> /\ Reference[1] \in {"C", "G"}
WantedName ==
    IF Reference # <<>> /\ Reference[1] = "#" THEN Tail(Reference) ELSE Reference

\* what the snapshot file held when export began
SnapshotBefore ==
    IF local.before.channelFile.exists
    THEN [i \in 1..Len(local.before.channelFile.body) |->
             << local.before.channelFile.body[i].key,
                local.before.channelFile.body[i].value >>]
    ELSE <<>>

\* the in-memory map held the name; the lookup in the snapshot, a plain
\* object, yields a value for the name
MemoryHolds == MapHas(local.before.nameToId, WantedName)
SnapshotYields ==
    /\ local.before.channelFile.exists
    /\ MapHas(SnapshotBefore, WantedName) \/ WantedName \in InheritedKeys

\* the caches and the snapshot file are as export found them
NothingTouched ==
    /\ channelNameToIdCache = local.before.nameToId
    /\ channelIdToNameCache = local.before.idToName
    /\ channelFile = local.before.channelFile
    /\ drain.kind = "none"

\* the whole snapshot has been laid over the in-memory maps
SnapshotLoaded ==
    /\ IsOverlay(channelNameToIdCache, local.before.nameToId, SnapshotBefore)
    /\ IsOverlay(channelIdToNameCache, local.before.idToName,
                 Reversed(SnapshotBefore))
    /\ channelFile = local.before.channelFile
    /\ drain.kind = "none"

\* the remote was asked, and once its last page had succeeded the snapshot
\* was rewritten with what the pages gave
RemoteFetched ==
    /\ drain.kind = "conversations.list"
    /\ drain.reqs >= 1
    /\ FailedPages # {} => channelFile = local.before.channelFile
    /\ drain.status = "done" =>
          /\ channelFile.exists
          /\ channelFile.updatedAt = clock - 1
          /\ IsOverlay(Parse(channelFile.body), EmptyMap, EntriesOfPages)

\* C9 as the specification words it: the first tier that contains the name
\* answers, and a snapshot that is consulted is loaded whole into memory
C9_SnapshotLoadedWheneverConsulted ==
    ResolveEnded /\ ~RawIdShaped =>
        IF MemoryHolds
        THEN local.tiers = <<"memory">> /\ NothingTouched
        ELSE /\ local.before.channelFile.exists =>
                  \A key \in Keys(SnapshotBefore) : MapHas(channelNameToIdCache, key)
             /\ IF SnapshotYields
                THEN local.tiers = <<"memory", "snapshot">> /\ SnapshotLoaded
                ELSE local.tiers = <<"memory", "snapshot", "remote">> /\ RemoteFetched

\* C9 (amended): for a reference that is not ID-shaped, resolveChannelId asks
\* the in-memory map, then the durable snapshot, then the remote channel list,
\* and stops at the first whose lookup yields a value for the name.  The
\* snapshot is loaded whole into the in-memory maps only when it is the tier
\* that answers; a snapshot that is read and does not answer leaves them as
\* they were.  Whenever the remote tier completes, the snapshot is rewritten
\* with the entries fetched.
C9_SnapshotLoadedOnlyWhenItAnswers ==
    ResolveEnded /\ ~RawIdShaped =>
        IF MemoryHolds
        THEN local.tiers = <<"memory">> /\ NothingTouched
        ELSE IF SnapshotYields
        THEN local.tiers = <<"memory", "snapshot">> /\ SnapshotLoaded
        ELSE /\ local.tiers = <<"memory", "snapshot", "remote">>
             /\ RemoteFetched
             /\ drain.before.nameToId = local.before.nameToId
             /\ drain.before.idToName = local.before.idToName

\* the remote tier completed after a snapshot that lacked the name had been
\* read, and a name of that snapshot is not in memory
C9_SnapshotReadButNotLoaded ==
    /\ ResolveEnded
    /\ local.tiers = <<"memory", "snapshot", "remote">>
    /\ drain.status = "done"
    /\ local.before.channelFile.exists
    /\ channelFile # local.before.channelFile
    /\ \E key \in Keys(SnapshotBefore) : ~MapHas(channelNameToIdCache, key)

\* resolveChannelId threw "Channel not found"
NotFoundThrown == ResolveThrew /\ ret.what = "Channel not found"

\* the normalized reference begins like an id
NormalizedIdShaped == WantedName # <<>> /\ WantedName[1] \in {"C", "G"}

\* the pages of the channel list gave an entry for the name
FetchedHolds ==
    \E i \in 1..Len(EntriesOfPages) : EntriesOfPages[i][1] = WantedName

\* the name was in no tier: not in memory, not in the snapshot, and not in
\* a channel list fetched to its end without a failure
AbsentEverywhere ==
    /\ ~MemoryHolds
    /\ ~MapHas(SnapshotBefore, WantedName)
    /\ drain.kind = "conversations.list"
    /\ drain.status = "done"
    /\ FailedPages = {}
    /\ ~FetchedHolds

\* the id the first tier that holds the name maps it to
FirstTierId ==
    IF MemoryHolds THEN MapGet(local.before.nameToId, WantedName)
    ELSE IF MapHas(SnapshotBefore, WantedName) THEN MapGet(SnapshotBefore, WantedName)
    ELSE LastWins(EmptyMap, EntriesOfPages, WantedName)

\* C10, in the direction the code fails it: a reference that is not
\* ID-shaped and whose name no tier holds never resolves to anything, so a
\* resolveChannelId that returns has returned the id the first tier holding
\* the name maps it to, and one that has fetched the whole channel list
\* without finding the name has failed with "Channel not found".
C10_UnknownNameIsNotFound ==
    ResolveEnded /\ ~RawIdShaped /\ ~NormalizedIdShaped =>
        /\ ResolveReturned => local.channelId = FirstTierId
        /\ AbsentEverywhere => NotFoundThrown

(***************************************************************************)
(* C11: a reference that begins with "C" or "G" comes back from            *)
(* resolveChannelId as it was passed: no tier is consulted (neither the    *)
(* in-memory map nor the snapshot nor the remote), no request is issued,   *)
(* and the caches and the snapshot files are as export found them.         *)
(***************************************************************************)
C11_IdShapedReferenceReturnedUntouched ==
    [][ ( /\ op = "idle"
          /\ op' = "export"
          /\ args'.channelId # <<>>
          /\ args'.channelId[1] \in {"C", "G"} ) =>
        ( /\ pc' = "gn"
          /\ local'.channelId = args'.channelId
          /\ local'.tiers = <<>>
          /\ drain'.kind = "none"
          /\ inflight' = "none"
          /\ UNCHANGED <<caches, files>> ) ]_vars

\* an id is passed while the in-memory map and the snapshot both hold entries
C11_IdPassedWithFilledCaches ==
    /\ ResolveReturned
    /\ RawIdShaped
    /\ local.before.nameToId # EmptyMap
    /\ local.before.channelFile.exists

(***************************************************************************)
(* Properties of prefetchUsers.                                            *)
(***************************************************************************)
\* the step that enters prefetchUsers, and whether a refresh is forced
PrefetchEntered ==
    \/ op = "idle" /\ op' = "prefetchUsersToCache"
    \/ op = "export" /\ pc = "pu"
RefreshForced == op' = "prefetchUsersToCache" /\ args'.refreshCache

\* prefetchUsers has returned to its caller
PrefetchReturned == IF op' = "export" THEN pc' = "fmt" ELSE pc' = "done"

\* the <<id, name>> entries of the user snapshot
UserSnapshotEntries == Parse(userFile.body)

\* C12: when prefetchUsers finds a user snapshot and no refresh is forced, it
\* returns without a request, with every snapshot entry laid over the
\* in-memory user cache and with the files as they were.  Otherwise it opens
\* a users.list drain that goes on while pages name a successor; when the
\* drain ends with every page succeeded, the next step writes a fresh user
\* snapshot.
C12_PrefetchLoadsSnapshotOrDrainsUserList ==
    [][ /\ PrefetchEntered /\ userFile.exists /\ ~RefreshForced =>
              /\ PrefetchReturned
              /\ inflight' = "none"
              /\ drain'.kind = "none"
              /\ UNCHANGED files
              /\ IsOverlay(userCache', userCache, UserSnapshotEntries)
        /\ PrefetchEntered /\ (~userFile.exists \/ RefreshForced) =>
              /\ pc' = "ul_call"
              /\ drain'.kind = "users.list"
              /\ drain'.reqs = 0
              /\ UNCHANGED <<userCache, files>>
        /\ pc = "ul_wait" /\ pc' # "ul_call" =>
              /\ OneRequestPerPage'
              /\ (FailedPages' = {} /\ drain'.status # "rejected") <=> pc' = "ul_save"
        /\ pc = "ul_save" =>
              /\ userFile'.exists
              /\ userFile'.updatedAt = clock
              /\ clock' = clock + 1
              /\ PrefetchReturned
      ]_vars

\* both cases in one run: an operation found no user snapshot, drained the
\* user list and wrote one; the export after it has loaded that snapshot
\* without a request
C12_SnapshotWrittenThenLoaded ==
    /\ op = "export"
    /\ pc = "fmt"
    /\ drain.kind = "none"
    /\ userFile.exists
    /\ userFile.updatedAt >= 1
    /\ Parse(userFile.body) # <<>>
    /\ \A i \in 1..Len(Parse(userFile.body)) :
          MapGet(userCache, Parse(userFile.body)[i][1]) = Parse(userFile.body)[i][2]

\* the <<id, name>> entries the pages of a user list give
MemberEntriesOfPages ==
    LET kept == SelectSeq(AllItems(drain.pages, "members"), HasId)
    IN  [i \in 1..Len(kept) |-> <<kept[i].id, ExtractDisplayName(kept[i])>>]

\* the users.list request that was awaited has failed: its page reports
\* ok = false, or the call was rejected
UserListFailed ==
    /\ pc = "ul_wait"
    /\ drain'.kind = "users.list"
    /\ FailedPages' # {} \/ drain'.status = "rejected"

\* C13 as the specification words it: whatever way the user list fails,
\* prefetchUsers returns normally to its caller (export goes on to format,
\* prefetchUsersToCache returns the cache size), nothing is thrown, and the
\* user cache keeps what the earlier pages put into it.
C13_PrefetchFailureNeverAborts ==
    [][ UserListFailed =>
          /\ PrefetchReturned
          /\ ret'.kind # "error"
          /\ userCache' = userCache
          /\ IsOverlay(userCache, drain.before.users, MemberEntriesOfPages)
      ]_vars

\* an export whose user-list request was rejected after a page had been
\* cached: the export has thrown and no output file was written
C13_ExportAbortedInPrefetch ==
    /\ op = "export"
    /\ pc = "done"
    /\ drain.kind = "users.list"
    /\ drain.status = "rejected"
    /\ Len(drain.pages) = 1
    /\ ret.kind = "error"
    /\ outputs = <<>>

(***************************************************************************)
(* Properties of the snapshot files.                                       *)
(***************************************************************************)
\* the mapping a snapshot file holds
WrittenChannels == Parse(channelFile'.body)
WrittenUsers == Parse(userFile'.body)

\* C14 as the specification words it: every snapshot that is written holds
\* exactly the mapping its fetch delivered
C14_SnapshotIsExactlyTheFetch ==
    [][ /\ channelFile' # channelFile =>
              IsOverlay(WrittenChannels, EmptyMap, EntriesOfPages)
        /\ userFile' # userFile =>
              IsOverlay(WrittenUsers, EmptyMap, MemberEntriesOfPages)
      ]_vars

\* C14 (amended): every snapshot write replaces the whole file.  A channel
\* snapshot written after a successful channel-list fetch holds exactly the
\* name -> id pairs of the fetched channels that have an id and a name (the
\* later pair winning for a repeated name), nothing of the previous snapshot
\* or of the in-memory maps.  A user snapshot written after a successful
\* user-list fetch holds the whole in-memory user cache: the cache as it was
\* when the fetch began, overlaid with the fetched ids and their selected
\* names; it is exactly the fetched mapping when the cache was empty then.
C14_UserSnapshotIsTheWholeCache ==
    [][ /\ channelFile' # channelFile =>
              /\ channelFile'.exists
              /\ channelFile'.updatedAt = clock
              /\ IsOverlay(WrittenChannels, EmptyMap, EntriesOfPages)
        /\ userFile' # userFile =>
              /\ userFile'.exists
              /\ userFile'.updatedAt = clock
              /\ IsOverlay(WrittenUsers, drain.before.users, MemberEntriesOfPages)
              /\ IsOverlay(WrittenUsers, EmptyMap, userCache)
      ]_vars

\* a forced refresh on an exporter whose cache held a user that the fetched
\* list lacks: the snapshot written has that user
C14_SnapshotKeptAnEarlierUser ==
    /\ op = "prefetchUsersToCache"
    /\ pc = "done"
    /\ drain.kind = "users.list"
    /\ drain.status = "done"
    /\ userFile # drain.before.userFile
    /\ \E id \in Keys(Parse(userFile.body)) :
          \A i \in 1..Len(MemberEntriesOfPages) : MemberEntriesOfPages[i][1] # id

\* the id -> name map holds, for every id the name -> id map gives, one of
\* the names that map to it, and nothing else
IsInverse(idToName, nameToId) ==
    /\ Keys(idToName) = {MapGet(nameToId, name) : name \in Keys(nameToId)}
    /\ \A id \in Keys(idToName) :
          /\ MapHas(nameToId, MapGet(idToName, id))
          /\ MapGet(nameToId, MapGet(idToName, id)) = id

\* a step in which an exporter with empty caches lays a snapshot over them
FreshUserLoad ==
    /\ PrefetchEntered
    /\ userFile.exists
    /\ ~RefreshForced
    /\ userCache = EmptyMap
FreshChannelLoad ==
    /\ pc \in {"idle", "gn"}
    /\ channelFile.exists
    /\ channelNameToIdCache = EmptyMap
    /\ channelIdToNameCache = EmptyMap
    /\ channelNameToIdCache' # EmptyMap

\* the mapping handed to saveChannelCacheToFile
ChannelsHandedOver ==
    IF pc = "rc_save" THEN local.allChannels ELSE CacheData(EmptyMap, local.channels)

NoThread(m) ==
    \/ "reply_count" \notin DOMAIN m
    \/ m.reply_count = 0
    \/ m.thread_ts = Absent \/ m.thread_ts = <<>>

\* the aggregates built so far
Aggregates == IF "result" \in DOMAIN local THEN local.result ELSE <<>>

\* C16: an aggregate whose message has no reply count, a reply count of 0 or
\* no thread anchor has no replies, and no conversations.replies request is
\* issued while expandThreads stands at such a message; in every aggregate the
\* ts of the message is not the ts of any of its replies.
C16_RepliesOnlyForThreadsAndWithoutRoot ==
    [][ /\ inflight' = "conversations.replies" =>
              /\ pc' = "r_wait"
              /\ ~NoThread(local'.messages[local'.i])
        /\ \A k \in 1..Len(Aggregates') :
              /\ NoThread(Aggregates'[k].message) => Aggregates'[k].replies = <<>>
              /\ \A j \in 1..Len(Aggregates'[k].replies) :
                    Aggregates'[k].replies[j].ts # Aggregates'[k].message.ts
      ]_vars

\* the history held a message with a reply count of 0, a reply sent to the
\* channel and a root whose thread delivered the root again with its reply:
\* three aggregates, the last with the reply alone
C16_RootFilteredAndOthersEmpty ==
    /\ op = "export"
    /\ pc = "pu"
    /\ Len(local.result) = 3
    /\ local.result[1].message = MsgRoot
    /\ local.result[1].replies = <<MsgReply>>
    /\ local.result[2].message = MsgReply
    /\ local.result[3].message = MsgZero
    /\ drain.kind = "none"

\* the thread-bearing messages of the history, the threads begun and the
\* delays elapsed
ThreadCount ==
    Cardinality({k \in 1..Len(local.messages) : ~NoThread(local.messages[k])})
ThreadsBegun == local.threadIndex
DelaysElapsed == local.delays

\* C17: with N thread-bearing messages, expandThreads waits once after the
\* reply drain of every thread but the last and nowhere else: while the k-th
\* thread is drained k - 1 delays have elapsed, a delay is pending only after
\* a thread that is not the last, and when every message has its aggregate
\* max(0, N - 1) delays have elapsed.
C17_OneDelayBetweenThreads ==
    (op = "export" /\ "delays" \in DOMAIN local) =>
        /\ pc \in {"r_call", "r_wait", "r_ret", "delay"} =>
              /\ ThreadsBegun \in 1..ThreadCount
              /\ DelaysElapsed = ThreadsBegun - 1
        /\ pc = "delay" => ThreadsBegun < ThreadCount
        /\ pc = "r_ret" /\ ThreadsBegun = ThreadCount =>
              DelaysElapsed = ThreadCount - 1
        /\ pc = "et" =>
              DelaysElapsed = (IF ThreadsBegun < ThreadCount THEN ThreadsBegun
                               ELSE IF ThreadCount = 0 THEN 0 ELSE ThreadCount - 1)
        /\ Len(local.result) = Len(local.messages) =>
              DelaysElapsed = (IF ThreadCount = 0 THEN 0 ELSE ThreadCount - 1)

\* two threads, a plain message after the second: the expansion is complete
\* and one delay has elapsed
C17_TwoThreadsOneDelay ==
    /\ op = "export"
    /\ pc = "pu"
    /\ ThreadCount = 2
    /\ Len(local.messages) = 3
    /\ NoThread(local.messages[3])
    /\ DelaysElapsed = 1

(***************************************************************************)
(* Properties of the remote calls.                                         *)
(***************************************************************************)
\* the places where an operation awaits a remote call
AwaitPcs == WaitPcs \cup {"ci_wait", "ui_wait"}

\* C18: in every operation the remote calls are strictly sequential.  A
\* request is issued only when none is outstanding; while one is outstanding
\* the operation stands at its await and the only step it takes is the
\* arrival of that request's response or failure; so the requests of a drain
\* outnumber its responses by at most the one outstanding or rejected.
C18_OneRequestAtATime ==
    [][ /\ inflight' # "none" /\ inflight' # inflight => inflight = "none"
        /\ inflight # "none" =>
              /\ pc \in AwaitPcs
              /\ op \in {"export", "listChannels", "prefetchUsersToCache"}
              /\ inflight' = "none"
              /\ pc' \notin AwaitPcs
        /\ drain'.kind \in PagedKinds =>
              drain'.reqs - Len(drain'.pages) =
                  (IF inflight' # "none" \/ drain'.status = "rejected" THEN 1 ELSE 0)
      ]_vars

\* the first request for the second thread's replies is outstanding; the
\* first thread's drain has been answered and the delay has elapsed
C18_SecondThreadRequestOutstanding ==
    /\ op = "export"
    /\ inflight = "conversations.replies"
    /\ local.threadIndex = 2
    /\ drain.reqs = 1
    /\ drain.pages = <<>>

(***************************************************************************)
(* Properties of fetchHistory.                                             *)
(***************************************************************************)
\* the message lies between the dates of the export, in tenths of a second
InWindow(m) ==
    /\ "startDate" \in DOMAIN args.dates => SortKey(m) >= args.dates.startDate \div 100
    /\ "endDate" \in DOMAIN args.dates => SortKey(m) <= args.dates.endDate \div 100

\* C19 as the specification words it: whatever the pages deliver, every
\* message that fetchHistory returns lies within the bounds
C19_CollectedLiesWithinBounds ==
    [][ pc = "h_sort" =>
          \A k \in 1..Len(local'.messages) : InWindow(local'.messages[k]) ]_vars

\* C19 (amended): fetchHistory applies no filter of its own.  Every request
\* of its drain carries the bounds, in seconds, as oldest and latest (either
\* is left out when its date is not given), and what it returns is every
\* message of the pages delivered in answer, sorted by timestamp: the result
\* lies within the bounds exactly when the delivered messages do.
C19_BoundsAreSentAndPagesKeptWhole ==
    [][ /\ drain'.kind = "conversations.history" =>
              /\ IF "startDate" \in DOMAIN args'.dates
                 THEN ParseFloat(drain'.params.oldest) * 100 = args'.dates.startDate
                 ELSE drain'.params.oldest = Absent
              /\ IF "endDate" \in DOMAIN args'.dates
                 THEN ParseFloat(drain'.params.latest) * 100 = args'.dates.endDate
                 ELSE drain'.params.latest = Absent
        /\ pc = "h_sort" =>
              /\ local'.messages = SortByTs(AllItems(drain.pages, "messages"))
              /\ (\A k \in 1..Len(local'.messages) : InWindow(local'.messages[k]))
                    <=> (\A k \in 1..Len(AllItems(drain.pages, "messages")) :
                            InWindow(AllItems(drain.pages, "messages")[k]))
      ]_vars

\* asked for the messages between 150 and 250, the remote delivered those at
\* 300.0, 100.0 and 200.0, and fetchHistory has returned all three
C19_OutOfBoundsMessagesReturned ==
    /\ op = "export"
    /\ pc = "et"
    /\ DOMAIN args.dates = {"startDate", "endDate"}
    /\ args.dates.startDate = 150000
    /\ args.dates.endDate = 250000
    /\ local.messages = <<MsgAt("1"), MsgAt("2"), MsgAt("3")>>

(***************************************************************************)
(* Properties of main().                                                   *)
(***************************************************************************)
\* the command line of the run and its mode
Cli == remote.argv
ExportMode == ~Cli.listChannels /\ ~Cli.prefetchUsers

\* no operation was started and no request issued
NothingStarted ==
    /\ pc \in {"idle", "exited"}
    /\ op \in {"idle", "exited"}
    /\ inflight = "none"
    /\ drain.kind = "none"
    /\ outputs = <<>>
    /\ caches = <<EmptyMap, EmptyMap, EmptyMap>>

\* the process has ended with status 1 before any operation
ExitedWithOne == pc = "exited" /\ ret.kind = "exit" /\ ret.code = 1

\* C20 as the specification words it: a --from or --to value that is not of
\* the shape YYYY-MM-DD ends the process before any request, in every mode
C20_MalformedDateAlwaysRejected ==
    (Cli.from \in BadDates \cup {<<>>} \/ Cli.to \in BadDates \cup {<<>>}) =>
        /\ NothingStarted
        /\ pc # "idle" => ExitedWithOne

\* C20 (amended): only the export mode looks at the dates.  There a non-empty
\* --from or --to value that is not of the shape YYYY-MM-DD ends the process
\* with status 1 before the exporter is asked for anything, so before any
\* request; an empty value counts as no date, and a value of the shape gives
\* the bound.  In the list-channels and prefetch-users modes the values of
\* --from and --to are never parsed: the operation runs whatever they are.
C20_MalformedDateRejectedInExportMode ==
    /\ ExportMode /\ (Cli.from \in BadDates \/ Cli.to \in BadDates) =>
          /\ NothingStarted
          /\ pc # "idle" => ExitedWithOne
    /\ op = "export" =>
          /\ Cli.from \notin BadDates /\ Cli.to \notin BadDates
          /\ "startDate" \in DOMAIN args.dates <=> Cli.from \in {GoodDate, OddDate}
          /\ "endDate" \in DOMAIN args.dates <=> Cli.to = GoodDate
          /\ Cli.from = GoodDate => args.dates.startDate = 86400000
          /\ Cli.from = OddDate => args.dates.startDate = 2 * 86400000
    /\ Cli.token /\ Cli.listChannels => op \in {"idle", "listChannels"}
    /\ Cli.token /\ ~Cli.listChannels /\ Cli.prefetchUsers =>
          op \in {"idle", "prefetchUsersToCache"}

\* an export with a good --from and a malformed --to has ended with status 1
C20_ExportRejectedForMalformedTo ==
    /\ ExportMode
    /\ Cli.token
    /\ Truthy(Cli.channel)
    /\ Cli.from = GoodDate
    /\ Cli.to \in BadDates
    /\ ExitedWithOne
    /\ NothingStarted

(***************************************************************************)
(* C21: the delimited output is flat                                       *)
(***************************************************************************)
\* a row read back as a CSV reader reads it: the fields between the commas,
\* a quoted field without its quotes and with "" read as one quote
RECURSIVE ReadCsv(_, _, _, _)
ReadCsv(rest, fields, field, quoted) ==
    IF rest = <<>> THEN Append(fields, field)
    ELSE IF quoted
    THEN (IF rest[1] # "\"" THEN ReadCsv(Tail(rest), fields, Append(field, rest[1]), TRUE)
          ELSE IF Len(rest) >= 2 /\ rest[2] = "\""
          THEN ReadCsv(SubSeq(rest, 3, Len(rest)), fields, Append(field, "\""), TRUE)
          ELSE ReadCsv(Tail(rest), fields, field, FALSE))
    ELSE IF rest[1] = "," THEN ReadCsv(Tail(rest), Append(fields, field), <<>>, FALSE)
    ELSE IF rest[1] = "\"" /\ field = <<>> THEN ReadCsv(Tail(rest), fields, field, TRUE)
    ELSE ReadCsv(Tail(rest), fields, Append(field, rest[1]), FALSE)
CsvFields(row) == ReadCsv(row, <<>>, <<>>, FALSE)

\* the export has written its file in the given format
Written(format) ==
    /\ op = "export" /\ pc = "done" /\ ret.kind = "value"
    /\ args.format = format
    /\ Len(outputs) = 1

\* what the rows after the header are to show, aggregate by aggregate: the
\* message, whether it is a reply, and the root it belongs to
RECURSIVE RowsDue(_)
RowsDue(result) ==
    IF result = <<>> THEN <<>>
    ELSE << [message |-> result[1].message, reply |-> FALSE, root |-> result[1].message] >>
         \o [k \in 1..Len(result[1].replies) |->
                [message |-> result[1].replies[k], reply |-> TRUE,
                 root |-> result[1].message]]
         \o RowsDue(Tail(result))

RECURSIVE RowCount(_)
RowCount(result) ==
    IF result = <<>> THEN 1 ELSE 1 + Len(result[1].replies) + RowCount(Tail(result))

ReplyCountOf(message) ==
    IF "reply_count" \in DOMAIN message THEN message.reply_count ELSE 0

\* C21: the delimited output of an export has one header row, then for each
\* aggregate in order the row of its root and the rows of its replies in reply
\* order, 1 + sum of (1 + |replies|) rows in all; a root row shows the root's
\* thread_ts and reply count, a reply row shows reply count 0 and the
\* thread_ts of its root.
C21_DelimitedOutputIsFlat ==
    Written("csv") =>
        LET rows == SplitLines(outputs[1].content)
            due == RowsDue(local.result)
        IN  /\ Len(rows) = RowCount(local.result)
            /\ Len(rows) = 1 + Len(due)
            /\ CsvFields(rows[1]) = << <<"timestamp">>, <<"channel">>, <<"user">>,
                                       <<"text">>, <<"thread_ts">>, <<"reply_count">> >>
            /\ \A k \in 1..Len(due) :
                  LET fields == CsvFields(rows[k + 1])
                  IN  /\ Len(fields) = 6
                      /\ fields[1] = ToISOString(ParseTimestamp(Field(due[k].message, "ts")))
                      /\ fields[3] = ResolveUserName(due[k].message, userCache)
                      /\ fields[5] = Nullish(due[k].root.thread_ts, <<>>)
                      /\ fields[6] = IF due[k].reply THEN <<"0">>
                                     ELSE Digits(ReplyCountOf(due[k].message))

\* a delimited export of three messages, the second one a thread with two
\* replies, written by an author whose name holds a comma
C21_ThreadWithTwoRepliesWritten ==
    /\ Written("csv")
    /\ Len(local.result) = 3
    /\ Len(local.result[2].replies) = 2
    /\ \E k \in 1..Len(userCache) : \E h \in 1..Len(userCache[k][2]) :
          userCache[k][2][h] = ","

(***************************************************************************)
(* C22: the rendering of a text field of the delimited output              *)
(***************************************************************************)
\* the elements of a sequence at the given places, in their order
Pick(s, places) ==
    [j \in 1..Cardinality(places) |->
        s[CHOOSE k \in places : Cardinality({h \in places : h < k}) = j - 1]]

\* the text with every \r\n, \r and \n replaced by one space
Collapsed(text) ==
    LET second == {k \in 2..Len(text) : text[k] = "\n" /\ text[k - 1] = "\r"}
        spaced == [k \in 1..Len(text) |->
                      IF text[k] \in {"\n", "\r"} THEN " " ELSE text[k]]
    IN  Pick(spaced, (1..Len(text)) \ second)

\* the text without the spaces before its first and after its last other
\* character
Trimmed(text) ==
    LET inked == {k \in 1..Len(text) : text[k] # " "}
    IN  IF inked = {} THEN <<>>
        ELSE SubSeq(text, CHOOSE k \in inked : \A h \in inked : k <= h,
                          CHOOSE k \in inked : \A h \in inked : h <= k)

Holds(text, chars) == \E k \in 1..Len(text) : text[k] \in chars
Wrapped(field) == Len(field) >= 2 /\ field[1] = "\"" /\ field[Len(field)] = "\""
Escaped == op = "escapeCsv"

\* C22 as stated: the rendered text field holds no raw newline and, read
\* back, is the text with its newlines collapsed to spaces.
C22_RenderedFieldReadsBackCollapsed ==
    Escaped =>
        /\ ~Holds(ret.value, {"\n", "\r"})
        /\ CsvFields(ret.value) = <<Collapsed(args.text)>>

\* C22, amended: the text has its newlines collapsed to spaces and is then
\* trimmed; the rendered field doubles every double quote of that text, is
\* wrapped in double quotes exactly when that text holds a comma or a double
\* quote, holds no raw newline and, read back, is that text.
C22_RenderedFieldReadsBackCollapsedAndTrimmed ==
    Escaped =>
        LET text == Trimmed(Collapsed(args.text))
            quotes(s) == Cardinality({k \in 1..Len(s) : s[k] = "\""})
        IN  /\ ~Holds(ret.value, {"\n", "\r"})
            /\ CsvFields(ret.value) = <<text>>
            /\ Wrapped(ret.value) <=> Holds(text, {",", "\""})
            /\ ~Holds(text, {",", "\""}) => ret.value = text
            /\ Holds(text, {",", "\""}) =>
                  /\ Len(ret.value) = Len(text) + quotes(text) + 2
                  /\ quotes(ret.value) = 2 * quotes(text) + 2

\* a quote followed by \r\n: the newline became one space, the space was
\* trimmed, the quote was doubled and the field wrapped
C22_QuoteAndNewlineRendered ==
    /\ Escaped
    /\ args.text = <<"\"", "\r", "\n">>
    /\ ret.value = <<"\"", "\"", "\"", "\"">>

(***************************************************************************)
(* C23: the date headings of the sectioned output                          *)
(***************************************************************************)
\* the dates of the headings `## <date>` of a sectioned output, in order
Headings(content) ==
    LET contentLines == SplitLines(content)
        places == {k \in 1..Len(contentLines) :
                      /\ Len(contentLines[k]) > 3
                      /\ SubSeq(contentLines[k], 1, 3) = <<"#", "#", " ">>}
        found == Pick(contentLines, places)
    IN  [k \in 1..Len(found) |-> SubSeq(found[k], 4, Len(found[k]))]

\* the calendar date of the k-th message of the export
DateOf(k) == FormatDate(ParseTimestamp(Field(local.result[k].message, "ts")))

\* a date yyyy-mm-dd as a number that grows with the date
DateNumber(dateStr) ==
    DigitsValue(SubSeq(dateStr, 1, 4)) * 10000
    + DigitsValue(SubSeq(dateStr, 6, 7)) * 100 + DigitsValue(SubSeq(dateStr, 9, 10))

\* C23: in the sectioned output of an export a date heading stands exactly
\* where a message's calendar date differs from that of the message before,
\* so that there is one heading per calendar date of the history, the
\* headings in chronological order.
C23_OneHeadingPerDateInOrder ==
    Written("markdown") =>
        LET headings == Headings(outputs[1].content)
            turns == {k \in 1..Len(local.result) : k = 1 \/ DateOf(k) # DateOf(k - 1)}
        IN  /\ headings = [j \in 1..Cardinality(turns) |->
                              DateOf(CHOOSE k \in turns :
                                        Cardinality({h \in turns : h < k}) = j - 1)]
            /\ {headings[j] : j \in 1..Len(headings)}
                   = {DateOf(k) : k \in 1..Len(local.result)}
            /\ \A i, j \in 1..Len(headings) :
                  i < j => DateNumber(headings[i]) < DateNumber(headings[j])

\* the export of a message without a timestamp and of a message of an
\* earlier day was written with the heading of today first
C23_TodayBeforeAnEarlierDay ==
    /\ Written("markdown")
    /\ Len(local.result) >= 2
    /\ Field(local.result[1].message, "ts") = Absent
    /\ LET headings == Headings(outputs[1].content)
       IN  /\ Len(headings) >= 2
           /\ DateNumber(headings[1]) > DateNumber(headings[2])

(***************************************************************************)
(* C24: fetchHistory returns what the pages delivered, by timestamp        *)
(***************************************************************************)
\* the timestamp of a message as a number (tenths of a second), 0 without ts
TsNumber(message) == IF message.ts = Absent THEN 0 ELSE ParseFloat(message.ts)

\* how often a message occurs in a sequence
Occurrences(message, messages) ==
    Cardinality({k \in 1..Len(messages) : messages[k] = message})

\* fetchHistory returns: the step from the end of its loop to expandThreads
HistoryReturns == op = "export" /\ pc = "h_sort" /\ pc' = "et"

\* C24: when fetchHistory returns, its result holds every message of the
\* pages it drained as often as the pages delivered it and nothing else, in
\* non-decreasing order of the numeric timestamp, a message without a
\* timestamp counting as timestamp 0.
C24_HistoryIsDeliveredMessagesSorted ==
    [][HistoryReturns =>
          LET delivered == AllItems(drain.pages, "messages")
              returned == local'.messages
          IN  /\ Len(returned) = Len(delivered)
              /\ \A k \in 1..Len(delivered) :
                    Occurrences(delivered[k], returned)
                        = Occurrences(delivered[k], delivered)
              /\ \A k \in 1..Len(returned) - 1 :
                    TsNumber(returned[k]) <= TsNumber(returned[k + 1])]_vars

\* two pages delivered five messages out of order, one of them without a
\* timestamp: fetchHistory has returned them with that one first
C24_FiveMessagesReturnedInOrder ==
    /\ op = "export" /\ pc = "et"
    /\ local.i = 1 /\ local.result = <<>>
    /\ Len(local.messages) = 5
    /\ local.messages[1].ts = Absent
    /\ local.messages[3].ts = Evening
    /\ local.messages[5].ts = Today

(***************************************************************************)
(* C25: the phases of one export                                           *)
(***************************************************************************)
\* the phase of export a position belongs to: 1 channel resolution
\* (resolveChannelId, getChannelName), 2 fetchHistory, 3 expandThreads,
\* 4 prefetchUsers, 5 the formatter, 6 writeOutput, 7 the return
Phase(position) ==
    CASE position \in {"rc_call", "rc_wait", "rc_save", "gn", "ci_call", "ci_wait"} -> 1
      [] position \in {"h_call", "h_wait", "h_sort"} -> 2
      [] position \in {"et", "r_call", "r_wait", "r_ret", "delay"} -> 3
      [] position \in {"pu", "ul_call", "ul_wait", "ul_save"} -> 4
      [] position \in {"fmt", "ui_call", "ui_wait"} -> 5
      [] position = "wo" -> 6
      [] position = "done" -> 7

\* the phase whose remote calls go to a method
PhaseOfMethod(method) ==
    CASE method \in {"conversations.list", "conversations.info"} -> 1
      [] method = "conversations.history" -> 2
      [] method = "conversations.replies" -> 3
      [] method = "users.list" -> 4
      [] method = "users.info" -> 5

RequestIssued == inflight = "none" /\ inflight' # "none"

\* C25: an export goes through its phases in the fixed order channel
\* resolution, history pages, thread-reply pages, bulk user prefetch,
\* single-user lookups, output write, leaving the order only by throwing;
\* every remote request is issued in the phase of its method, so that no
\* users.info request precedes the bulk prefetch and no history or reply
\* request follows the first lookup of a user name.
C25_ExportPhasesInFixedOrder ==
    [][/\ (op = "idle" /\ op' = "export") =>
              Phase(pc') = 1 \/ (pc' = "done" /\ ret'.kind = "error")
       /\ (op = "export" /\ op' = "export") =>
              /\ \/ Phase(pc') = Phase(pc)
                 \/ Phase(pc') = Phase(pc) + 1
                 \/ pc' = "done" /\ ret'.kind = "error"
              /\ RequestIssued =>
                    /\ Phase(pc) = PhaseOfMethod(inflight')
                    /\ Phase(pc') = PhaseOfMethod(inflight')
              /\ (pc = "pu" /\ pc' # "pu") =>
                    \/ drain'.kind = "users.list"
                    \/ LoadSnapshot(userFile).found
              /\ outputs' # outputs => pc = "wo"]_vars

\* a users.info request is outstanding in an export of two messages whose
\* bulk prefetch drained users.list and wrote the user snapshot
C25_LookupAfterBulkPrefetch ==
    /\ op = "export"
    /\ pc = "ui_wait"
    /\ inflight = "users.info"
    /\ Len(local.messages) = 2
    /\ userFile.exists /\ userFile.updatedAt >= 1

(***************************************************************************)
(* C26: one aggregate per message                                          *)
(***************************************************************************)
\* expandThreads has returned and export has not thrown since
Expanded ==
    /\ op = "export"
    /\ \/ pc \in {"pu", "ul_call", "ul_wait", "ul_save", "fmt", "ui_call", "ui_wait", "wo"}
       \/ pc = "done" /\ ret.kind = "value"

\* C26: the aggregates expandThreads builds are, in order, one per message
\* of the history, each with that message as its root: while it runs they are
\* the aggregates of the messages it has passed, when it has returned there
\* is exactly one per message; the messageCount export returns is the number
\* of these messages, the replies not counted.
C26_OneAggregatePerMessageInOrder ==
    op = "export" =>
        /\ Len(local.result) <= Len(local.messages)
        /\ \A k \in 1..Len(local.result) : local.result[k].message = local.messages[k]
        /\ pc \in {"et", "r_call", "r_wait", "r_ret", "delay"} =>
              Len(local.result) = local.i - 1
        /\ Expanded => Len(local.result) = Len(local.messages)
        /\ (pc = "done" /\ ret.kind = "value") =>
              ret.value.messageCount = Len(local.result)

\* an export of three messages, one of them a thread with two replies, has
\* returned the message count 3
C26_ThreeMessagesFiveRows ==
    /\ op = "export" /\ pc = "done" /\ ret.kind = "value"
    /\ ret.value.messageCount = 3
    /\ Len(Flatten(local.result)) = 5
    /\ local.result[1].replies = <<>>
    /\ Len(local.result[2].replies) = 2

(***************************************************************************)
(* C27: the two channel maps in memory                                     *)
(***************************************************************************)
\* nameToId[n] = i if and only if idToName[i] = n
MutualInverses(nameToId, idToName) ==
    /\ \A name \in Keys(nameToId) :
          MapGet(idToName, MapGet(nameToId, name)) = name
    /\ \A id \in Keys(idToName) :
          MapGet(nameToId, MapGet(idToName, id)) = id

\* C27: whenever the exporter is between two operations, its two channel
\* maps are mutual inverses: nameToId[n] = i if and only if idToName[i] = n.
C27_ChannelMapsAreMutualInverses ==
    op = "idle" => MutualInverses(channelNameToIdCache, channelIdToNameCache)

\* after an export by channel id that asked conversations.info for the
\* name, the id has its name and the name has no id
C27_NameLearntOneWay ==
    /\ op = "idle"
    /\ opsLeft = 0
    /\ channelIdToNameCache = <<<<IdC1, NameG>>>>
    /\ channelNameToIdCache = EmptyMap

(***************************************************************************)
(* C28: listChannels and the channel snapshot                              *)
(***************************************************************************)
\* the <<name, id>> pairs of a list of channels, in its order, and as a set
PairsOf(channels) == [k \in 1..Len(channels) |-> <<channels[k].name, channels[k].id>>]
PairSet(pairs) == {pairs[k] : k \in 1..Len(pairs)}
InNameOrder(channels) ==
    \A k \in 1..Len(channels) - 1 :
        LocaleCompare(channels[k].name, channels[k + 1].name) <= 0

\* listChannels is called; it returns after its drain
ListCalled == op = "idle" /\ op' = "listChannels"
ListDrained == op = "listChannels" /\ pc = "lc_save" /\ pc' = "done"

\* what listChannels does when it can use the snapshot, and how it starts
\* otherwise
SnapshotAnswersOrDrainBegins ==
    /\ (ListCalled /\ ~args'.refreshCache /\ channelFile.exists) =>
          /\ pc' = "done" /\ ret'.kind = "value"
          /\ inflight' = "none" /\ drain'.reqs = 0
          /\ channelFile' = channelFile
          /\ Len(ret'.value) = Len(Parse(channelFile.body))
          /\ PairSet(PairsOf(ret'.value)) = PairSet(Parse(channelFile.body))
          /\ InNameOrder(ret'.value)
    /\ (ListCalled /\ (args'.refreshCache \/ ~channelFile.exists)) =>
          /\ pc' = "lc_call" /\ ret'.kind = "none"
          /\ drain'.kind = "conversations.list"
    /\ ListDrained =>
          /\ drain.kind = "conversations.list" /\ drain.status = "done"
          /\ ret'.kind = "value"
          /\ channelFile'.exists

\* C28 as stated: without refresh and with a snapshot, listChannels makes no
\* remote call, leaves the snapshot file as it is and returns the snapshot's
\* pairs in name order; otherwise it drains the channel list and the
\* snapshot it writes holds exactly the pairs it returns.
C28_SnapshotHoldsExactlyTheReturnedPairs ==
    [][/\ SnapshotAnswersOrDrainBegins
       /\ ListDrained =>
             PairSet(Parse(channelFile'.body)) = PairSet(PairsOf(ret'.value))]_vars

\* C28, amended: without refresh and with a snapshot, listChannels makes no
\* remote call, leaves the snapshot file as it is and returns the snapshot's
\* pairs in name order; otherwise it drains the channel list, returns in name
\* order every fetched channel that has an id and a name, repeated ones
\* included, and the snapshot it writes holds for every returned name the id
\* of the last returned pair with that name, and nothing else.
C28_SnapshotHoldsLastIdOfEachReturnedName ==
    [][/\ SnapshotAnswersOrDrainBegins
       /\ ListDrained =>
             /\ Len(ret'.value) = Len(EntriesOfPages)
             /\ \A k \in 1..Len(EntriesOfPages) :
                   Cardinality({h \in 1..Len(EntriesOfPages) :
                                   EntriesOfPages[h] = EntriesOfPages[k]})
                   = Cardinality({h \in 1..Len(ret'.value) :
                                   PairsOf(ret'.value)[h] = EntriesOfPages[k]})
             /\ InNameOrder(ret'.value)
             /\ IsOverlay(Parse(channelFile'.body), EmptyMap, PairsOf(ret'.value))]_vars

\* a refresh returned two channels with one name and different ids; the
\* snapshot written holds the name once, with the id returned last
C28_RepeatedNameReturnedTwiceStoredOnce ==
    /\ op = "listChannels" /\ pc = "done" /\ ret.kind = "value"
    /\ args.refreshCache
    /\ Len(ret.value) = 2
    /\ ret.value[1].name = ret.value[2].name
    /\ ret.value[1].id # ret.value[2].id
    /\ Parse(channelFile.body) = <<<<ret.value[2].name, ret.value[2].id>>>>

====
